---- MODULE Spec2Model ----
(***************************************************************************)
(* urql-tinybase-exchange: the exchange of src/src/index.ts (lines 1-252). *)
(* An operation enters the exchange, its document is stripped of the       *)
(* @dbMergeRow / @dbDeleteRow directives and forwarded; when the result    *)
(* comes back the original document is walked against the result data and  *)
(* rows of the TinyBase store are merged or deleted.                       *)
(***************************************************************************)
EXTENDS Integers, Sequences, FiniteSets, TLC

VARIABLES
    store,      \* the TinyBase store: <<table, rowId>> -> (cellId -> cell)
    inflight,   \* the operations forwarded to the transport, not yet answered
    docs,       \* document name -> the DocumentNode object the application holds
    app,        \* the application: which documents it issues
    last,       \* the last result that went through tap, and what tap did
    log         \* the operations sent and the results arrived, in order, as an
                \* observer of the applications of Observed sees them

vars == <<store, inflight, docs, app, last, log>>

(***************************************************************************)
(* Bounds.                                                                 *)
(***************************************************************************)
MaxInflight == 2
MaxStack == 12
MaxLog == 4

(***************************************************************************)
(* JavaScript values.  A JSON value of a result is a tagged record; a      *)
(* number carries its decimal text, which is what String(n) yields.        *)
(***************************************************************************)
Undefined == [t |-> "undefined"]
Null == [t |-> "null"]
Str(s) == [t |-> "string", s |-> s]
Num(s) == [t |-> "number", s |-> s]
Bool(s) == [t |-> "boolean", s |-> s]
Obj(f) == [t |-> "object", f |-> f]
Arr(e) == [t |-> "array", e |-> e]

\* !v is false
Truthy(v) ==
    CASE v.t = "undefined" -> FALSE
      [] v.t = "null" -> FALSE
      [] v.t = "string" -> v.s # ""
      [] v.t = "number" -> v.s # "0"
      [] v.t = "boolean" -> v.s = "true"
      [] OTHER -> TRUE

\* typeof v === "object"  (null, arrays and objects)
TypeofObject(v) == v.t \in {"null", "object", "array"}

IsArray(v) == v.t = "array"

\* v[key] for a value that is not null or undefined
Get(v, key) ==
    IF v.t = "object" /\ key \in DOMAIN v.f THEN v.f[key] ELSE Undefined

\* String(v)
RECURSIVE JsString(_)
RECURSIVE JsJoin(_, _)
JsJoin(e, i) ==
    IF i > Len(e) THEN ""
    ELSE (IF i > 1 THEN "," ELSE "")
         \o (IF e[i].t \in {"null", "undefined"} THEN "" ELSE JsString(e[i]))
         \o JsJoin(e, i + 1)
JsString(v) ==
    CASE v.t = "undefined" -> "undefined"
      [] v.t = "null" -> "null"
      [] v.t \in {"string", "number", "boolean"} -> v.s
      [] v.t = "object" -> "[object Object]"
      [] v.t = "array" -> JsJoin(v.e, 1)

\* s.toLowerCase() on a name held as a sequence of characters
UpperToLower ==
    [A |-> "a", B |-> "b", C |-> "c", D |-> "d", E |-> "e", F |-> "f",
     G |-> "g", H |-> "h", I |-> "i", J |-> "j", K |-> "k", L |-> "l",
     M |-> "m", N |-> "n", O |-> "o", P |-> "p", Q |-> "q", R |-> "r",
     S |-> "s", T |-> "t", U |-> "u", V |-> "v", W |-> "w", X |-> "x",
     Y |-> "y", Z |-> "z"]
toLowerCase(name) ==
    [i \in DOMAIN name |->
        IF name[i] \in DOMAIN UpperToLower THEN UpperToLower[name[i]] ELSE name[i]]

(***************************************************************************)
(* The TinyBase store, as the exchange uses it.                            *)
(***************************************************************************)
IsCell(v) == v.t \in {"string", "number", "boolean"}

HasRow(s, table, rowId) == <<table, rowId>> \in DOMAIN s

GetRow(s, table, rowId) ==
    IF HasRow(s, table, rowId) THEN s[<<table, rowId>>] ELSE <<>>

\* store.setRow(table, rowId, row): the row is replaced by the valid cells
SetRow(s, table, rowId, row) ==
    LET valid == {c \in DOMAIN row : IsCell(row[c])}
        key == <<table, rowId>>
    IN  IF valid = {} THEN s
        ELSE [k \in DOMAIN s \cup {key} |->
                IF k = key THEN [c \in valid |-> row[c]] ELSE s[k]]

\* faulty variant of SetPartialRow: every value is taken for a cell
SetPartialRowAnyCell(s, table, rowId, row) ==
    LET key == <<table, rowId>>
        old == GetRow(s, table, rowId)
    IN  IF DOMAIN row = {} THEN s
        ELSE [k \in DOMAIN s \cup {key} |->
                IF k = key
                THEN [c \in DOMAIN old \cup DOMAIN row |->
                        IF c \in DOMAIN row THEN row[c] ELSE old[c]]
                ELSE s[k]]
\* store.setPartialRow(table, rowId, row): the valid cells of row are set,
\* the other cells of the row are kept, the row is created when absent
SetPartialRow(s, table, rowId, row) ==
    LET valid == {c \in DOMAIN row : IsCell(row[c])}
        key == <<table, rowId>>
        old == GetRow(s, table, rowId)
    IN  IF valid = {} THEN s
        ELSE [k \in DOMAIN s \cup {key} |->
                IF k = key
                THEN [c \in DOMAIN old \cup valid |->
                        IF c \in valid THEN row[c] ELSE old[c]]
                ELSE s[k]]

\* store.delRow(table, rowId)
DelRow(s, table, rowId) ==
    [k \in DOMAIN s \ {<<table, rowId>>} |-> s[k]]

(***************************************************************************)
(* The GraphQL AST (graphql-js nodes).  An optional member (alias,         *)
(* selectionSet) is a sequence of length 0 or 1.  Names that the code      *)
(* lowercases (argument values) are sequences of characters.               *)
(***************************************************************************)
StringValue(chars) == [kind |-> "StringValue", value |-> chars]
EnumValue(chars) == [kind |-> "EnumValue", value |-> chars]
IntValue(chars) == [kind |-> "IntValue", value |-> chars]
Argument(name, value) == [name |-> name, value |-> value]
Directive(name, arguments) == [name |-> name, arguments |-> arguments]
SelectionSet(selections) == [selections |-> selections]
Field(name, alias, arguments, directives, selectionSet) ==
    [kind |-> "Field", name |-> name, alias |-> alias, arguments |-> arguments,
     directives |-> directives, selectionSet |-> selectionSet]
InlineFragment(directives, selections) ==
    [kind |-> "InlineFragment", directives |-> directives,
     selectionSet |-> <<SelectionSet(selections)>>]
FragmentSpread(name, directives) ==
    [kind |-> "FragmentSpread", name |-> name, directives |-> directives]
FragmentDefinition(name, directives, selections) ==
    [kind |-> "FragmentDefinition", name |-> name, directives |-> directives,
     selectionSet |-> <<SelectionSet(selections)>>]
OperationDefinition(operation, directives, selections) ==
    [kind |-> "OperationDefinition", operation |-> operation,
     directives |-> directives, selectionSet |-> <<SelectionSet(selections)>>]
Document(definitions) == [kind |-> "Document", definitions |-> definitions]

(***************************************************************************)
(* map: visit(operation.query, {Directive(node) {...}}).                   *)
(***************************************************************************)
IsExchangeDirective(node) == node.name = "dbMergeRow" \/ node.name = "dbDeleteRow"

\* faulty variant of VisitDirectives: only @dbMergeRow is removed
VisitDirectivesMergeOnly(directives) ==
    SelectSeq(directives, LAMBDA node : node.name # "dbMergeRow")
\* the Directive visitor over one directive list: null removes the node
VisitDirectives(directives) ==
    SelectSeq(directives, LAMBDA node : ~IsExchangeDirective(node))

RECURSIVE VisitSelectionSet(_)
\* faulty variant of VisitSelection: only the directives of fields are removed
VisitSelectionFieldsOnly(sel) ==
    CASE sel.kind = "Field" ->
            [sel EXCEPT !.directives = VisitDirectives(@),
                        !.selectionSet =
                            [i \in DOMAIN @ |-> VisitSelectionSet(@[i])]]
      [] sel.kind = "InlineFragment" ->
            [sel EXCEPT !.selectionSet =
                            [i \in DOMAIN @ |-> VisitSelectionSet(@[i])]]
      [] sel.kind = "FragmentSpread" -> sel
VisitSelection(sel) ==
    CASE sel.kind = "Field" ->
            [sel EXCEPT !.directives = VisitDirectives(@),
                        !.selectionSet =
                            [i \in DOMAIN @ |-> VisitSelectionSet(@[i])]]
      [] sel.kind = "InlineFragment" ->
            [sel EXCEPT !.directives = VisitDirectives(@),
                        !.selectionSet =
                            [i \in DOMAIN @ |-> VisitSelectionSet(@[i])]]
      [] sel.kind = "FragmentSpread" ->
            [sel EXCEPT !.directives = VisitDirectives(@)]
VisitSelectionSet(ss) ==
    [selections |-> [i \in DOMAIN ss.selections |-> VisitSelection(ss.selections[i])]]

VisitDefinition(d) ==
    [d EXCEPT !.directives = VisitDirectives(@),
              !.selectionSet = [i \in DOMAIN @ |-> VisitSelectionSet(@[i])]]

\* the value visit returns: a copy of the document without the directives
Visit(query) ==
    [query EXCEPT !.definitions = [i \in DOMAIN @ |-> VisitDefinition(@[i])]]

\* faulty variant of VisitedInput: a visit that edits the document in place
VisitedInputStripped(query) == Visit(query)
\* the document object passed to visit, after the visit (visit copies)
VisitedInput(query) == query

(***************************************************************************)
(* tap: the reconciler.  A traversal state t is                            *)
(*   store   the store so far                                              *)
(*   calls   the store calls issued so far, in order                       *)
(*   diags   the console.error / console.warn calls so far, in order       *)
(*   thrown  whether an exception has been raised (nothing runs after it)  *)
(***************************************************************************)
Traversal(s) == [store |-> s, calls |-> <<>>, diags |-> <<>>, thrown |-> FALSE]

\* seq.find((x) => x.name.value === name), as a sequence of length 0 or 1
FindByName(seq, name) ==
    LET idx == {i \in DOMAIN seq : seq[i].name = name}
    IN  IF idx = {} THEN <<>>
        ELSE <<seq[CHOOSE i \in idx : \A j \in idx : i <= j]>>

\* seq.find((d) => d.kind === kind), as a sequence of length 0 or 1
FindByKind(seq, kind) ==
    LET idx == {i \in DOMAIN seq : seq[i].kind = kind}
    IN  IF idx = {} THEN <<>>
        ELSE <<seq[CHOOSE i \in idx : \A j \in idx : i <= j]>>

\* faulty variant of CallSetPartialRow: store.addRow, which makes a new row
\* under the first unused numeric id
CallAddRow(t, tableName, id, row) ==
    LET used == {k[2] : k \in {x \in DOMAIN t.store : x[1] = tableName}}
        free == {n \in 0..Cardinality(used) : ToString(n) \notin used}
        rowId == ToString(CHOOSE n \in free : \A m \in free : n <= m)
    IN  [t EXCEPT !.store = SetRow(@, tableName, rowId, row),
                  !.calls = Append(@, [op |-> "addRow", table |-> tableName,
                                       rowId |-> rowId, row |-> row])]
CallSetPartialRow(t, tableName, id, row) ==
    [t EXCEPT !.store = SetPartialRow(@, tableName, JsString(id), row),
              !.calls = Append(@, [op |-> "setPartialRow", table |-> tableName,
                                   rowId |-> JsString(id), row |-> row])]

CallDelRow(t, tableName, rowId) ==
    [t EXCEPT !.store = DelRow(@, tableName, rowId),
              !.calls = Append(@, [op |-> "delRow", table |-> tableName,
                                   rowId |-> rowId])]

ConsoleError(t, msg, got) ==
    [t EXCEPT !.diags = Append(@, [level |-> "error", msg |-> msg, got |-> got])]

ConsoleWarn(t, msg, tableName, value) ==
    [t EXCEPT !.diags = Append(@, [level |-> "warn", msg |-> msg,
                                   table |-> tableName, value |-> value])]

Throw(t) == [t EXCEPT !.thrown = TRUE]

\* faulty variant of MergeTableName: the kind of the argument is not looked at
MergeTableNameAnyKind(value) == <<value.value>>
\* the table name of a @dbMergeRow table argument, as a sequence of 0 or 1
MergeTableName(value) ==
    IF value.kind = "StringValue" THEN <<value.value>>
    ELSE IF value.kind = "EnumValue" THEN <<toLowerCase(value.value)>>
    ELSE <<>>

\* the table name of a @dbDeleteRow table argument, as a sequence of 0 or 1
\* faulty variant of DeleteTableName: the enum name is not lowercased
DeleteTableNameVerbatim(value) ==
    IF value.kind \in {"StringValue", "EnumValue"} THEN <<value.value>> ELSE <<>>
DeleteTableName(value) ==
    IF value.kind = "StringValue" THEN <<value.value>>
    ELSE IF value.kind = "EnumValue" THEN <<toLowerCase(value.value)>>
    ELSE <<>>

\* data.forEach((row) => ...) of the merge branch, from element i on
RECURSIVE MergeEach(_, _, _, _)
MergeEach(t, tableName, e, i) ==
    IF i > Len(e) \/ t.thrown THEN t
    ELSE IF e[i].t \in {"null", "undefined"} THEN Throw(t)
    ELSE IF Truthy(Get(e[i], "id"))
         THEN MergeEach(CallSetPartialRow(t, tableName, Get(e[i], "id"), e[i].f),
                        tableName, e, i + 1)
         ELSE MergeEach(ConsoleWarn(t, "Skipping row without 'id' field",
                                    tableName, e[i]),
                        tableName, e, i + 1)

\* the body of if (data && typeof data === "object") of the merge branch
\* faulty variant of MergeData: store.setRow, which replaces the row
MergeDataReplace(t, tableName, data) ==
    IF Truthy(data) /\ TypeofObject(data) /\ ~IsArray(data) /\ Truthy(Get(data, "id"))
    THEN [t EXCEPT !.store = SetRow(@, tableName, JsString(Get(data, "id")), data.f),
                   !.calls = Append(@, [op |-> "setRow", table |-> tableName,
                                        rowId |-> JsString(Get(data, "id")),
                                        row |-> data.f])]
    ELSE t
MergeData(t, tableName, data) ==
    IF Truthy(data) /\ TypeofObject(data)
    THEN IF IsArray(data) THEN MergeEach(t, tableName, data.e, 1)
         ELSE IF Truthy(Get(data, "id"))
              THEN CallSetPartialRow(t, tableName, Get(data, "id"), data.f)
              ELSE ConsoleWarn(t, "Cannot merge data without 'id' field",
                               tableName, data)
    ELSE t

\* data.forEach((id) => store.delRow(tableName, String(id))), from element i on
RECURSIVE DeleteEach(_, _, _, _)
\* faulty variant of DeleteEach: only the first id is deleted
DeleteEachFirstOnly(t, tableName, e, i) ==
    IF i > Len(e) THEN t ELSE CallDelRow(t, tableName, JsString(e[i]))
DeleteEach(t, tableName, e, i) ==
    IF i > Len(e) THEN t
    ELSE DeleteEach(CallDelRow(t, tableName, JsString(e[i])), tableName, e, i + 1)

\* faulty variant of DeleteData: the row id is JSON.stringify(data), which puts
\* a string in quotes
DeleteDataStringify(t, tableName, data) ==
    IF Truthy(data)
    THEN IF IsArray(data) THEN DeleteEach(t, tableName, data.e, 1)
         ELSE CallDelRow(t, tableName,
                         IF data.t = "string" THEN "\"" \o data.s \o "\""
                         ELSE JsString(data))
    ELSE t
\* faulty variant of DeleteData: store.delTable(tableName)
DeleteDataWholeTable(t, tableName, data) ==
    IF Truthy(data)
    THEN [t EXCEPT !.store = [k \in {x \in DOMAIN @ : x[1] # tableName} |-> @[k]],
                   !.calls = Append(@, [op |-> "delTable", table |-> tableName,
                                        rowId |-> JsString(data)])]
    ELSE t
\* the body of if (data) of the delete branch
DeleteData(t, tableName, data) ==
    IF Truthy(data)
    THEN IF IsArray(data) THEN DeleteEach(t, tableName, data.e, 1)
         ELSE CallDelRow(t, tableName, JsString(data))
    ELSE t

\* the @dbMergeRow part of processDirectives; returned: the function returned
MergeBranch(directives, data, t) ==
    LET mergeDirective == FindByName(directives, "dbMergeRow")
        tableArg == FindByName(mergeDirective[1].arguments, "table")
        tableName == MergeTableName(tableArg[1].value)
    IN  IF mergeDirective = <<>> THEN [t |-> t, returned |-> FALSE]
        ELSE IF tableArg = <<>>
        THEN [t |-> ConsoleError(t, "@dbMergeRow directive is missing required 'table' argument", ""),
              returned |-> TRUE]
        ELSE IF tableName = <<>>
        THEN [t |-> ConsoleError(t, "@dbMergeRow 'table' argument must be a string or enum",
                                 tableArg[1].value.kind),
              returned |-> TRUE]
        ELSE [t |-> MergeData(t, tableName[1], data), returned |-> FALSE]

\* the @dbDeleteRow part of processDirectives
DeleteBranch(directives, data, t) ==
    LET deleteDirective == FindByName(directives, "dbDeleteRow")
        tableArg == FindByName(deleteDirective[1].arguments, "table")
        tableName == DeleteTableName(tableArg[1].value)
    IN  IF deleteDirective = <<>> THEN t
        ELSE IF tableArg = <<>>
        THEN ConsoleError(t, "@dbDeleteRow directive is missing required 'table' argument", "")
        ELSE IF tableName = <<>>
        THEN ConsoleError(t, "@dbDeleteRow 'table' argument must be a string or enum",
                          tableArg[1].value.kind)
        ELSE DeleteData(t, tableName[1], data)

processDirectives(directives, data, t) ==
    LET merged == MergeBranch(directives, data, t)
    IN  IF merged.returned \/ merged.t.thrown THEN merged.t
        ELSE DeleteBranch(directives, data, merged.t)

\* the fragment table: fragments[d.name.value] = d, a later definition wins
Fragments(query) ==
    LET defs == query.definitions
        names == {defs[i].name : i \in {j \in DOMAIN defs : defs[j].kind = "FragmentDefinition"}}
    IN  [n \in names |->
            defs[CHOOSE i \in DOMAIN defs :
                    /\ defs[i].kind = "FragmentDefinition"
                    /\ defs[i].name = n
                    /\ \A j \in DOMAIN defs :
                          (defs[j].kind = "FragmentDefinition" /\ defs[j].name = n) => j <= i]]

\* faulty variant of ResponseKey: the alias is not looked at
ResponseKeyNameOnly(selection) == selection.name
\* selection.alias ? selection.alias.value : fieldName
ResponseKey(selection) ==
    IF selection.alias # <<>> THEN selection.alias[1] ELSE selection.name

(***************************************************************************)
(* processData(data, selectionSet).  fuel is the room left on the call     *)
(* stack: a call with none left raises RangeError.                         *)
(***************************************************************************)
RECURSIVE processData(_, _, _, _, _)
RECURSIVE ProcessItems(_, _, _, _, _, _)
RECURSIVE ProcessSelections(_, _, _, _, _, _)

\* one selection of the forEach over selectionSet.selections, data an object
\* faulty variant of ProcessSelection: the fragment definition's directives are not applied
ProcessSelectionNoSpreadDirectives(selection, data, fragments, t, fuel) ==
    CASE selection.kind = "Field" ->
            LET fieldData == Get(data, ResponseKey(selection))
                t1 == processDirectives(selection.directives, fieldData, t)
            IN  IF ~t1.thrown /\ selection.selectionSet # <<>> /\ Truthy(fieldData)
                THEN processData(fieldData, selection.selectionSet, fragments, t1, fuel)
                ELSE t1
      [] selection.kind = "InlineFragment" ->
            IF selection.selectionSet # <<>>
            THEN processData(data, selection.selectionSet, fragments, t, fuel)
            ELSE t
      [] selection.kind = "FragmentSpread" ->
            IF selection.name \in DOMAIN fragments
            THEN LET fragment == fragments[selection.name]
                 IN  IF fragment.selectionSet # <<>> /\ Truthy(data)
                     THEN processData(data, fragment.selectionSet, fragments, t, fuel)
                     ELSE t
            ELSE t
\* faulty variant of ProcessSelection: a field's directives get the parent object
ProcessSelectionParentData(selection, data, fragments, t, fuel) ==
    CASE selection.kind = "Field" ->
            LET fieldData == Get(data, ResponseKey(selection))
                t1 == processDirectives(selection.directives, data, t)
            IN  IF ~t1.thrown /\ selection.selectionSet # <<>> /\ Truthy(fieldData)
                THEN processData(fieldData, selection.selectionSet, fragments, t1, fuel)
                ELSE t1
      [] selection.kind = "InlineFragment" ->
            IF selection.selectionSet # <<>>
            THEN processData(data, selection.selectionSet, fragments, t, fuel)
            ELSE t
      [] selection.kind = "FragmentSpread" ->
            IF selection.name \in DOMAIN fragments
            THEN LET fragment == fragments[selection.name]
                     t1 == processDirectives(fragment.directives, data, t)
                 IN  IF ~t1.thrown /\ fragment.selectionSet # <<>> /\ Truthy(data)
                     THEN processData(data, fragment.selectionSet, fragments, t1, fuel)
                     ELSE t1
            ELSE t
\* processDirectives(directives, item) for every item of e from i on
RECURSIVE ReapplyEach(_, _, _, _)
ReapplyEach(directives, e, i, t) ==
    IF i > Len(e) \/ t.thrown THEN t
    ELSE ReapplyEach(directives, e, i + 1, processDirectives(directives, e[i], t))
\* faulty variant of ProcessSelection: a field's directives are applied to its
\* array value and again to every element of the array
ProcessSelectionReapplyPerElement(selection, data, fragments, t, fuel) ==
    CASE selection.kind = "Field" ->
            LET fieldData == Get(data, ResponseKey(selection))
                t0 == processDirectives(selection.directives, fieldData, t)
                t1 == IF IsArray(fieldData)
                      THEN ReapplyEach(selection.directives, fieldData.e, 1, t0)
                      ELSE t0
            IN  IF ~t1.thrown /\ selection.selectionSet # <<>> /\ Truthy(fieldData)
                THEN processData(fieldData, selection.selectionSet, fragments, t1, fuel)
                ELSE t1
      [] selection.kind = "InlineFragment" ->
            IF selection.selectionSet # <<>>
            THEN processData(data, selection.selectionSet, fragments, t, fuel)
            ELSE t
      [] selection.kind = "FragmentSpread" ->
            IF selection.name \in DOMAIN fragments
            THEN LET fragment == fragments[selection.name]
                     t1 == processDirectives(fragment.directives, data, t)
                 IN  IF ~t1.thrown /\ fragment.selectionSet # <<>> /\ Truthy(data)
                     THEN processData(data, fragment.selectionSet, fragments, t1, fuel)
                     ELSE t1
            ELSE t
\* faulty variant of ProcessSelection: a spread of a fragment that is not in
\* the table reads fragment.directives of undefined
ProcessSelectionUnknownSpreadThrows(selection, data, fragments, t, fuel) ==
    CASE selection.kind = "Field" ->
            LET fieldData == Get(data, ResponseKey(selection))
                t1 == processDirectives(selection.directives, fieldData, t)
            IN  IF ~t1.thrown /\ selection.selectionSet # <<>> /\ Truthy(fieldData)
                THEN processData(fieldData, selection.selectionSet, fragments, t1, fuel)
                ELSE t1
      [] selection.kind = "InlineFragment" ->
            IF selection.selectionSet # <<>>
            THEN processData(data, selection.selectionSet, fragments, t, fuel)
            ELSE t
      [] selection.kind = "FragmentSpread" ->
            IF selection.name \in DOMAIN fragments
            THEN LET fragment == fragments[selection.name]
                     t1 == processDirectives(fragment.directives, data, t)
                 IN  IF ~t1.thrown /\ fragment.selectionSet # <<>> /\ Truthy(data)
                     THEN processData(data, fragment.selectionSet, fragments, t1, fuel)
                     ELSE t1
            ELSE Throw(t)
\* faulty variant of ProcessSelection: the directives at the spread site and
\* on the inline fragment are applied to the value in scope
ProcessSelectionSiteDirectives(selection, data, fragments, t, fuel) ==
    CASE selection.kind = "Field" ->
            LET fieldData == Get(data, ResponseKey(selection))
                t1 == processDirectives(selection.directives, fieldData, t)
            IN  IF ~t1.thrown /\ selection.selectionSet # <<>> /\ Truthy(fieldData)
                THEN processData(fieldData, selection.selectionSet, fragments, t1, fuel)
                ELSE t1
      [] selection.kind = "InlineFragment" ->
            LET t1 == processDirectives(selection.directives, data, t)
            IN  IF ~t1.thrown /\ selection.selectionSet # <<>>
                THEN processData(data, selection.selectionSet, fragments, t1, fuel)
                ELSE t1
      [] selection.kind = "FragmentSpread" ->
            IF selection.name \in DOMAIN fragments
            THEN LET fragment == fragments[selection.name]
                     t0 == processDirectives(selection.directives, data, t)
                     t1 == IF t0.thrown THEN t0
                           ELSE processDirectives(fragment.directives, data, t0)
                 IN  IF ~t1.thrown /\ fragment.selectionSet # <<>> /\ Truthy(data)
                     THEN processData(data, fragment.selectionSet, fragments, t1, fuel)
                     ELSE t1
            ELSE t
ProcessSelection(selection, data, fragments, t, fuel) ==
    CASE selection.kind = "Field" ->
            LET fieldData == Get(data, ResponseKey(selection))
                t1 == processDirectives(selection.directives, fieldData, t)
            IN  IF ~t1.thrown /\ selection.selectionSet # <<>> /\ Truthy(fieldData)
                THEN processData(fieldData, selection.selectionSet, fragments, t1, fuel)
                ELSE t1
      [] selection.kind = "InlineFragment" ->
            IF selection.selectionSet # <<>>
            THEN processData(data, selection.selectionSet, fragments, t, fuel)
            ELSE t
      [] selection.kind = "FragmentSpread" ->
            IF selection.name \in DOMAIN fragments
            THEN LET fragment == fragments[selection.name]
                     t1 == processDirectives(fragment.directives, data, t)
                 IN  IF ~t1.thrown /\ fragment.selectionSet # <<>> /\ Truthy(data)
                     THEN processData(data, fragment.selectionSet, fragments, t1, fuel)
                     ELSE t1
            ELSE t

\* selectionSet.selections.forEach(...), from selection i on
ProcessSelections(selections, i, data, fragments, t, fuel) ==
    IF i > Len(selections) \/ t.thrown THEN t
    ELSE ProcessSelections(selections, i + 1, data, fragments,
                           ProcessSelection(selections[i], data, fragments, t, fuel),
                           fuel)

\* data.forEach((item) => processData(item, selectionSet)), from item i on
ProcessItems(e, i, selectionSet, fragments, t, fuel) ==
    IF i > Len(e) \/ t.thrown THEN t
    ELSE ProcessItems(e, i + 1, selectionSet, fragments,
                      processData(e[i], selectionSet, fragments, t, fuel), fuel)

processData(data, selectionSet, fragments, t, fuel) ==
    IF fuel = 0 THEN Throw(t)
    ELSE IF ~Truthy(data) \/ selectionSet = <<>> THEN t
    ELSE IF IsArray(data)
    THEN ProcessItems(data.e, 1, selectionSet, fragments, t, fuel - 1)
    ELSE IF TypeofObject(data)
    THEN ProcessSelections(selectionSet[1].selections, 1, data, fragments, t, fuel - 1)
    ELSE t

\* faulty variant of RootSelection: the field's selection set is walked before
\* the field's own directives are applied
RootSelectionNestedFirst(selection, data, fragments, t, fuel) ==
    CASE selection.kind = "Field" ->
            IF data.t \in {"null", "undefined"} THEN Throw(t)
            ELSE
            LET fieldData == Get(data, ResponseKey(selection))
                t1 == IF selection.selectionSet # <<>> /\ Truthy(fieldData)
                      THEN processData(fieldData, selection.selectionSet, fragments, t, fuel)
                      ELSE t
            IN  IF t1.thrown THEN t1
                ELSE processDirectives(selection.directives, fieldData, t1)
      [] selection.kind = "FragmentSpread" ->
            IF selection.name \in DOMAIN fragments
            THEN LET fragment == fragments[selection.name]
                     t1 == processDirectives(fragment.directives, data, t)
                 IN  IF ~t1.thrown /\ fragment.selectionSet # <<>>
                     THEN processData(data, fragment.selectionSet, fragments, t1, fuel)
                     ELSE t1
            ELSE t
      [] selection.kind = "InlineFragment" ->
            IF selection.selectionSet # <<>>
            THEN processData(data, selection.selectionSet, fragments, t, fuel)
            ELSE t
\* one selection of the forEach over operationDef.selectionSet.selections
RootSelection(selection, data, fragments, t, fuel) ==
    CASE selection.kind = "Field" ->
            \* result.data[responseKey] of null or undefined is a TypeError
            IF data.t \in {"null", "undefined"} THEN Throw(t)
            ELSE
            LET fieldData == Get(data, ResponseKey(selection))
                t1 == processDirectives(selection.directives, fieldData, t)
            IN  IF ~t1.thrown /\ selection.selectionSet # <<>> /\ Truthy(fieldData)
                THEN processData(fieldData, selection.selectionSet, fragments, t1, fuel)
                ELSE t1
      [] selection.kind = "FragmentSpread" ->
            IF selection.name \in DOMAIN fragments
            THEN LET fragment == fragments[selection.name]
                     t1 == processDirectives(fragment.directives, data, t)
                 IN  IF ~t1.thrown /\ fragment.selectionSet # <<>>
                     THEN processData(data, fragment.selectionSet, fragments, t1, fuel)
                     ELSE t1
            ELSE t
      [] selection.kind = "InlineFragment" ->
            IF selection.selectionSet # <<>>
            THEN processData(data, selection.selectionSet, fragments, t, fuel)
            ELSE t

RECURSIVE RootSelections(_, _, _, _, _, _)
RootSelections(selections, i, data, fragments, t, fuel) ==
    IF i > Len(selections) \/ t.thrown THEN t
    ELSE RootSelections(selections, i + 1, data, fragments,
                        RootSelection(selections[i], data, fragments, t, fuel), fuel)

\* faulty variant of QueryOf: the original is kept in one place for all the
\* operations, where another operation in flight has put its own
QueryOfShared(operation) ==
    LET others == {o \in inflight : o.key # operation.key}
    IN  IF operation.context.originalQuery # <<>> /\ others # {}
        THEN (CHOOSE o \in others : TRUE).context.originalQuery[1]
        ELSE IF operation.context.originalQuery # <<>>
        THEN operation.context.originalQuery[1]
        ELSE operation.query
\* operation.context.__originalQuery || operation.query
QueryOf(operation) ==
    IF operation.context.originalQuery # <<>>
    THEN operation.context.originalQuery[1]
    ELSE operation.query

\* the walk of tap over a result that has data
Reconcile(query, data, s) ==
    LET operationDef == FindByKind(query.definitions, "OperationDefinition")
    IN  IF operationDef # <<>> /\ operationDef[1].selectionSet # <<>>
        THEN RootSelections(operationDef[1].selectionSet[1].selections, 1, data,
                            Fragments(query), Traversal(s), MaxStack)
        ELSE Traversal(s)

\* tap((result) => {...}) on the store s
\* faulty variant of Tap: only an undefined data counts as no data
TapUndefinedOnly(result, s) ==
    IF result.data = Undefined THEN Traversal(s)
    ELSE Reconcile(QueryOf(result.operation), result.data, s)
Tap(result, s) ==
    IF ~Truthy(result.data) THEN Traversal(s)
    ELSE Reconcile(QueryOf(result.operation), result.data, s)

(***************************************************************************)
(* The documents the applications issue, the results the server returns    *)
(* for them and the rows the applications put in the store beforehand      *)
(* (the cases of test/integration.test.ts and of the README).              *)
(***************************************************************************)
TUsers == <<"u", "s", "e", "r", "s">>
TPosts == <<"p", "o", "s", "t", "s">>
TComments == <<"c", "o", "m", "m", "e", "n", "t", "s">>
TPostEnum == <<"P", "o", "s", "t">>
TPostLower == <<"p", "o", "s", "t">>

Merge(value) == Directive("dbMergeRow", <<Argument("table", value)>>)
Delete(value) == Directive("dbDeleteRow", <<Argument("table", value)>>)
Include == Directive("include", <<Argument("if", [kind |-> "Variable", value |-> <<"x">>])>>)
Leaf(name) == Field(name, <<>>, <<>>, <<>>, <<>>)
Node(name, directives, selections) ==
    Field(name, <<>>, <<>>, directives, <<SelectionSet(selections)>>)
Mutation(selections) == OperationDefinition("mutation", <<>>, selections)
Query(selections) == OperationDefinition("query", <<>>, selections)

EmptyStore == <<>>
Object1(k1, v1) == Obj(k1 :> v1)
Object2(k1, v1, k2, v2) == Obj((k1 :> v1) @@ (k2 :> v2))
Object3(k1, v1, k2, v2, k3, v3) == Obj((k1 :> v1) @@ (k2 :> v2) @@ (k3 :> v3))

Alice1 == Object2("id", Str("1"), "name", Str("Alice"))
Bob1 == Object2("id", Str("1"), "name", Str("Bob"))
Bob2 == Object2("id", Str("2"), "name", Str("Bob"))
NoIdUser == Object1("name", Str("No ID User"))
Age1 == Object2("id", Str("1"), "age", Num("30"))
Age2 == Object2("id", Str("2"), "age", Num("31"))
NullAge1 == Object2("id", Str("1"), "age", Null)
Carol3 == Object2("id", Str("3"), "name", Str("Carol"))
Zero == Object2("id", Num("0"), "name", Str("Zero"))
Post1 == Object3("id", Str("1"), "title", Str("Post 1"), "author", Alice1)
Tagged3 == Obj(("id" :> Str("3")) @@ ("title" :> Str("Post 3")) @@ ("author" :> Carol3)
               @@ ("tags" :> Arr(<<Str("a"), Str("b")>>)))

\* directives with a table argument that is absent, misnamed or of another kind
MergeNoArguments == Directive("dbMergeRow", <<>>)
MergeOtherArgument == Directive("dbMergeRow", <<Argument("name", StringValue(TUsers))>>)
MergeIntTable == Merge(IntValue(<<"1">>))
DeleteNoArguments == Directive("dbDeleteRow", <<>>)
DeleteIntTable == Delete(IntValue(<<"1">>))

\* query { post <directive> { id title author @dbMergeRow(table: "users") { id name } }
\*         removed @dbDeleteRow(table: "users") }
Malformed(directive) ==
    Document(<<Query(<<
        Node("post", <<directive>>,
             <<Leaf("id"), Leaf("title"),
               Node("author", <<Merge(StringValue(TUsers))>>, <<Leaf("id"), Leaf("name")>>)>>),
        Field("removed", <<>>, <<>>, <<Delete(StringValue(TUsers))>>, <<>>)>>)>>)

\* mutation { removeUser(id: "1") <merge> @dbDeleteRow(table: "users") { id name } }
Both(merge) ==
    Document(<<Mutation(<<
        Node("removeUser", <<merge, Delete(StringValue(TUsers))>>,
             <<Leaf("id"), Leaf("name")>>)>>)>>)

SeededUsers ==
    SetRow(SetRow(SetRow(EmptyStore, TUsers, "1",
                         ("id" :> Str("1")) @@ ("name" :> Str("Original"))
                            @@ ("extra" :> Str("keep-me"))),
                  TUsers, "2", ("id" :> Str("2")) @@ ("name" :> Str("Carol"))),
           TPosts, "1", ("id" :> Str("1")) @@ ("title" :> Str("Post 1")))

\* fragment CommentInfo on Comment { id text
\*   replies @dbMergeRow(table: "comments") { ...CommentInfo } }
\* mutation { createPost(id: "p1", title: "Complex Post") @dbMergeRow(table: "posts") {
\*   id title comments @dbMergeRow(table: "comments") { ...CommentInfo } } }
DeepReplies ==
    Document(<<
        FragmentDefinition("CommentInfo", <<>>,
            <<Leaf("id"), Leaf("text"),
              Node("replies", <<Merge(StringValue(TComments))>>,
                   <<FragmentSpread("CommentInfo", <<>>)>>)>>),
        Mutation(<<Node("createPost", <<Merge(StringValue(TPosts))>>,
            <<Leaf("id"), Leaf("title"),
              Node("comments", <<Merge(StringValue(TComments))>>,
                   <<FragmentSpread("CommentInfo", <<>>)>>)>>)>>)>>)

\* fragment UserInfo on User { id name ...UserInfo }
\* mutation { createUser @dbMergeRow(table: "users") { ...UserInfo } }
SelfSpread ==
    Document(<<
        FragmentDefinition("UserInfo", <<>>,
            <<Leaf("id"), Leaf("name"), FragmentSpread("UserInfo", <<>>)>>),
        Mutation(<<Node("createUser", <<Merge(StringValue(TUsers))>>,
                        <<FragmentSpread("UserInfo", <<>>)>>)>>)>>)

\* fragment Ids on User { id ...Names }
\* fragment Names on User { name ...Ids }
\* mutation { updateUser @dbMergeRow(table: "users") { ...Ids } }
MutualSpread ==
    Document(<<
        FragmentDefinition("Ids", <<>>, <<Leaf("id"), FragmentSpread("Names", <<>>)>>),
        FragmentDefinition("Names", <<>>, <<Leaf("name"), FragmentSpread("Ids", <<>>)>>),
        Mutation(<<Node("updateUser", <<Merge(StringValue(TUsers))>>,
                        <<FragmentSpread("Ids", <<>>)>>)>>)>>)

\* fragment UserInfo on User { id name }
\* mutation { createPost(id: "post-arr", title: "Post with Array") { id title
\*   comments @dbMergeRow(table: "comments") { id text
\*     author @dbMergeRow(table: "users") { ...UserInfo } } } }
NestedArrays ==
    Document(<<
        FragmentDefinition("UserInfo", <<>>, <<Leaf("id"), Leaf("name")>>),
        Mutation(<<Node("createPost", <<>>,
            <<Leaf("id"), Leaf("title"),
              Node("comments", <<Merge(StringValue(TComments))>>,
                   <<Leaf("id"), Leaf("text"),
                     Node("author", <<Merge(StringValue(TUsers))>>,
                          <<FragmentSpread("UserInfo", <<>>)>>)>>)>>)>>)>>)

\* mutation { createUser(id: "1") @dbMergeRow(table: "users") {
\*              id @dbDeleteRow(table: "users") name }
\*            wrapper { post @dbMergeRow(table: "posts") {
\*              id @dbDeleteRow(table: "posts") title } } }
MergeThenDelete ==
    Document(<<Mutation(<<
        Node("createUser", <<Merge(StringValue(TUsers))>>,
             <<Field("id", <<>>, <<>>, <<Delete(StringValue(TUsers))>>, <<>>), Leaf("name")>>),
        Node("wrapper", <<>>,
             <<Node("post", <<Merge(StringValue(TPosts))>>,
                    <<Field("id", <<>>, <<>>, <<Delete(StringValue(TPosts))>>, <<>>),
                      Leaf("title")>>)>>)>>)>>)

\* query { ...Missing
\*         absent @dbMergeRow(table: "users") { id name }
\*         user @dbMergeRow(table: "users") { ...Unknown
\*           gone @dbDeleteRow(table: "users")
\*           id name friend @dbMergeRow(table: "users") { id name } } }
Gaps ==
    Document(<<Query(<<
        FragmentSpread("Missing", <<>>),
        Node("absent", <<Merge(StringValue(TUsers))>>, <<Leaf("id"), Leaf("name")>>),
        Node("user", <<Merge(StringValue(TUsers))>>,
             <<FragmentSpread("Unknown", <<>>),
               Field("gone", <<>>, <<>>, <<Delete(StringValue(TUsers))>>, <<>>),
               Leaf("id"), Leaf("name"),
               Node("friend", <<Merge(StringValue(TUsers))>>,
                    <<Leaf("id"), Leaf("name")>>)>>)>>)>>)

\* mutation { createUser @dbMergeRow(table: "users") @dbMergeRow(table: "posts") { id name }
\*            removed @dbDeleteRow(table: "users") @dbDeleteRow(table: "posts") }
TwoOfAKind ==
    Document(<<Mutation(<<
        Node("createUser", <<Merge(StringValue(TUsers)), Merge(StringValue(TPosts))>>,
             <<Leaf("id"), Leaf("name")>>),
        Field("removed", <<>>, <<>>,
              <<Delete(StringValue(TUsers)), Delete(StringValue(TPosts))>>, <<>>)>>)>>)

\* fragment Plain on User { id name }
\* query { user { ...Plain @dbMergeRow(table: "users")
\*                ... on User @dbDeleteRow(table: "users") { id name }
\*                ... @dbMergeRow(table: "posts") { id } } }
Sites ==
    Document(<<
        FragmentDefinition("Plain", <<>>, <<Leaf("id"), Leaf("name")>>),
        Query(<<Node("user", <<>>,
            <<FragmentSpread("Plain", <<Merge(StringValue(TUsers))>>),
              InlineFragment(<<Delete(StringValue(TUsers))>>, <<Leaf("id"), Leaf("name")>>),
              InlineFragment(<<Merge(StringValue(TPosts))>>, <<Leaf("id")>>)>>)>>)>>)

DocumentNodes ==
    \* mutation { createUser(id: "1", name: "Alice") @dbMergeRow(table: "users") { id name } }
    ("createUser" :> Document(<<Mutation(<<
        Field("createUser", <<>>,
              <<Argument("id", StringValue(<<"1">>)),
                Argument("name", StringValue(<<"A", "l", "i", "c", "e">>))>>,
              <<Merge(StringValue(TUsers))>>,
              <<SelectionSet(<<Leaf("id"), Leaf("name")>>)>>)>>)>>))
    \* mutation { updateUser(id: "1") @dbMergeRow(table: "users") { id age } }
 @@ ("updateAge" :> Document(<<Mutation(<<
        Node("updateUser", <<Merge(StringValue(TUsers))>>,
             <<Leaf("id"), Leaf("age")>>)>>)>>))
    \* mutation { createUsers(users: [...]) @dbMergeRow(table: "users") { id name } }
 @@ ("createUsers" :> Document(<<Mutation(<<
        Node("createUsers", <<Merge(StringValue(TUsers))>>,
             <<Leaf("id"), Leaf("name")>>)>>)>>))
    \* mutation { deleteUser(id: "1") @dbDeleteRow(table: "users") }
 @@ ("deleteUser" :> Document(<<Mutation(<<
        Field("deleteUser", <<>>, <<Argument("id", StringValue(<<"1">>))>>,
              <<Delete(StringValue(TUsers))>>, <<>>)>>)>>))
    \* mutation { deleteUser(id: "1") { id @dbDeleteRow(table: "users") } }
 @@ ("deleteUserId" :> Document(<<Mutation(<<
        Node("deleteUser", <<>>,
             <<Field("id", <<>>, <<>>, <<Delete(StringValue(TUsers))>>, <<>>)>>)>>)>>))
    \* mutation { deleteUsers(ids: [...]) { ids @dbDeleteRow(table: "users") } }
 @@ ("deleteUsers" :> Document(<<Mutation(<<
        Node("deleteUsers", <<>>,
             <<Field("ids", <<>>, <<>>, <<Delete(StringValue(TUsers))>>, <<>>)>>)>>)>>))
    \* fragment PostFragment on Post @dbMergeRow(table: Post) { id title }
    \* mutation { createPost(id: "1") { ...PostFragment } }
 @@ ("createPostEnum" :> Document(<<
        FragmentDefinition("PostFragment", <<Merge(EnumValue(TPostEnum))>>,
                           <<Leaf("id"), Leaf("title")>>),
        Mutation(<<Node("createPost", <<>>, <<FragmentSpread("PostFragment", <<>>)>>)>>)>>))
    \* mutation { createPost(id: "1") @dbMergeRow(table: "Post") { id title } }
 @@ ("createPostString" :> Document(<<Mutation(<<
        Node("createPost", <<Merge(StringValue(TPostEnum))>>,
             <<Leaf("id"), Leaf("title")>>)>>)>>))
    \* mutation { deletePost(id: "1") @dbDeleteRow(table: Post) }
 @@ ("deletePostEnum" :> Document(<<Mutation(<<
        Field("deletePost", <<>>, <<>>, <<Delete(EnumValue(TPostEnum))>>, <<>>)>>)>>))
    \* mutation { deletePost(id: "1") @dbDeleteRow(table: "Post") }
 @@ ("deletePostString" :> Document(<<Mutation(<<
        Field("deletePost", <<>>, <<>>, <<Delete(StringValue(TPostEnum))>>, <<>>)>>)>>))
    \* fragment FragmentWithDirective on User @dbMergeRow(table: "users") { id name }
    \* mutation { createUser(id: "1") { ...FragmentWithDirective } }
 @@ ("fragmentOnObject" :> Document(<<
        FragmentDefinition("FragmentWithDirective", <<Merge(StringValue(TUsers))>>,
                           <<Leaf("id"), Leaf("name")>>),
        Mutation(<<Node("createUser", <<>>,
                        <<FragmentSpread("FragmentWithDirective", <<>>)>>)>>)>>))
    \* query { users { ...FragmentWithDirective } }
 @@ ("fragmentOnList" :> Document(<<
        FragmentDefinition("FragmentWithDirective", <<Merge(StringValue(TUsers))>>,
                           <<Leaf("id"), Leaf("name")>>),
        Query(<<Node("users", <<>>,
                     <<FragmentSpread("FragmentWithDirective", <<>>)>>)>>)>>))
    \* fragment UserFragment on User @dbMergeRow(table: "users") { id name }
    \* fragment PostFragment on Post @dbMergeRow(table: "posts") {
    \*   id title author { ...UserFragment } }
    \* query GetPosts { posts { ...PostFragment } }
 @@ ("getPosts" :> Document(<<
        FragmentDefinition("UserFragment", <<Merge(StringValue(TUsers))>>,
                           <<Leaf("id"), Leaf("name")>>),
        FragmentDefinition("PostFragment", <<Merge(StringValue(TPosts))>>,
                           <<Leaf("id"), Leaf("title"),
                             Node("author", <<>>, <<FragmentSpread("UserFragment", <<>>)>>)>>),
        Query(<<Node("posts", <<>>, <<FragmentSpread("PostFragment", <<>>)>>)>>)>>))
    \* fragment F on User @dbMergeRow(table: "users") @include(if: $x) {
    \*   id @include(if: $x) @dbDeleteRow(table: "posts") }
    \* query @dbMergeRow(table: "users") {
    \*   me: user(id: "1") @include(if: $x) @dbMergeRow(table: "users") {
    \*     ...F @dbMergeRow(table: "posts") @include(if: $x)
    \*     ... on User @dbDeleteRow(table: "posts") @include(if: $x) {
    \*       name @dbMergeRow(table: "users") } } }
 @@ ("mergeNoArguments" :> Malformed(MergeNoArguments))
 @@ ("mergeOtherArgument" :> Malformed(MergeOtherArgument))
 @@ ("mergeIntTable" :> Malformed(MergeIntTable))
 @@ ("deleteNoArguments" :> Malformed(DeleteNoArguments))
 @@ ("deleteIntTable" :> Malformed(DeleteIntTable))
 @@ ("bothTables" :> Both(Merge(StringValue(TPosts))))
 @@ ("bothMergeNoArguments" :> Both(MergeNoArguments))
 @@ ("bothMergeIntTable" :> Both(MergeIntTable))
    \* mutation { createUser(id: "1", name: "Alice") @dbMergeRow(table: "users") { id name }
    \*            createUser2: createUser(id: "2", name: "Bob")
    \*              @dbMergeRow(table: "users") { id name } }
 @@ ("createTwoUsers" :> Document(<<Mutation(<<
        Node("createUser", <<Merge(StringValue(TUsers))>>, <<Leaf("id"), Leaf("name")>>),
        Field("createUser", <<"createUser2">>, <<>>, <<Merge(StringValue(TUsers))>>,
              <<SelectionSet(<<Leaf("id"), Leaf("name")>>)>>)>>)>>))
    \* query { first: user(id: "1") @dbMergeRow(table: "users") { id name }
    \*         second: user(id: "2") @dbMergeRow(table: "users") { id name }
    \*         post { writer: author @dbMergeRow(table: "users") { id name }
    \*                editor: author @dbMergeRow(table: "users") { id name } } }
 @@ ("aliases" :> Document(<<Query(<<
        Field("user", <<"first">>, <<Argument("id", StringValue(<<"1">>))>>,
              <<Merge(StringValue(TUsers))>>, <<SelectionSet(<<Leaf("id"), Leaf("name")>>)>>),
        Field("user", <<"second">>, <<Argument("id", StringValue(<<"2">>))>>,
              <<Merge(StringValue(TUsers))>>, <<SelectionSet(<<Leaf("id"), Leaf("name")>>)>>),
        Node("post", <<>>,
             <<Field("author", <<"writer">>, <<>>, <<Merge(StringValue(TUsers))>>,
                     <<SelectionSet(<<Leaf("id"), Leaf("name")>>)>>),
               Field("author", <<"editor">>, <<>>, <<Merge(StringValue(TUsers))>>,
                     <<SelectionSet(<<Leaf("id"), Leaf("name")>>)>>)>>)>>)>>))
 @@ ("nestedArrays" :> NestedArrays)
 @@ ("mergeThenDelete" :> MergeThenDelete)
 @@ ("gaps" :> Gaps)
 @@ ("twoOfAKind" :> TwoOfAKind)
 @@ ("sites" :> Sites)
    \* mutation { register(id: 5, name: "Eve") @dbMergeRow(table: "users") { id name } }
 @@ ("register" :> Document(<<Mutation(<<
        Node("register", <<Merge(StringValue(TUsers))>>, <<Leaf("id"), Leaf("name")>>)>>)>>))
    \* mutation { unregister(id: 5) @dbDeleteRow(table: "users") }
 @@ ("unregister" :> Document(<<Mutation(<<
        Field("unregister", <<>>, <<>>, <<Delete(StringValue(TUsers))>>, <<>>)>>)>>))
    \* mutation { signUp(id: "1", name: "Alice") @dbMergeRow(table: "users") { id name } }
 @@ ("signUp" :> Document(<<Mutation(<<
        Node("signUp", <<Merge(StringValue(TUsers))>>, <<Leaf("id"), Leaf("name")>>)>>)>>))
    \* mutation { rename(id: "1", name: "Bob") @dbMergeRow(table: "users") { id name } }
 @@ ("rename" :> Document(<<Mutation(<<
        Node("rename", <<Merge(StringValue(TUsers))>>, <<Leaf("id"), Leaf("name")>>)>>)>>))
    \* mutation { close(id: "1") @dbDeleteRow(table: "users") }
 @@ ("close" :> Document(<<Mutation(<<
        Field("close", <<>>, <<>>, <<Delete(StringValue(TUsers))>>, <<>>)>>)>>))
 @@ ("deepReplies" :> DeepReplies)
 @@ ("selfSpread" :> SelfSpread)
 @@ ("mutualSpread" :> MutualSpread)
 @@ ("everyPosition" :> Document(<<
        FragmentDefinition("F", <<Merge(StringValue(TUsers)), Include>>,
                           <<Field("id", <<>>, <<>>,
                                   <<Include, Delete(StringValue(TPosts))>>, <<>>)>>),
        OperationDefinition("query", <<Merge(StringValue(TUsers))>>, <<
            Field("user", <<"me">>, <<Argument("id", StringValue(<<"1">>))>>,
                  <<Include, Merge(StringValue(TUsers))>>,
                  <<SelectionSet(<<
                      FragmentSpread("F", <<Merge(StringValue(TPosts)), Include>>),
                      InlineFragment(<<Delete(StringValue(TPosts)), Include>>,
                                     <<Field("name", <<>>, <<>>,
                                             <<Merge(StringValue(TUsers))>>, <<>>)>>)
                  >>)>>)>>)>>))

Comment(id, author) ==
    Object3("id", Str(id), "text", Str("New Comment"), "author", author)

\* a comment and the replies to it
Thread(id, replies) ==
    Object3("id", Str(id), "text", Str("New Comment"), "replies", Arr(replies))

\* a post of the mock server of the recursion test, with its comments
Post(comments) ==
    Object3("id", Str("p1"), "title", Str("Complex Post"), "comments", Arr(comments))

UnvalidatedResponses ==
    ("deepReplies" :>
        {Object1("createPost", Post(<<>>)),
         Object1("createPost", Post(<<Thread("c100", <<>>)>>)),
         Object1("createPost", Post(<<Thread("c100", <<Thread("c101", <<>>)>>)>>)),
         Object1("createPost",
                 Post(<<Thread("c100", <<Thread("c101", <<>>)>>), Thread("c102", <<>>)>>))})
 @@ ("selfSpread" :>
        {Object1("createUser", Alice1), Object1("createUser", Bob1),
         Object1("createUser", Null)})
 @@ ("mutualSpread" :>
        {Object1("updateUser", Alice1), Object1("updateUser", Null)})

MalformedResponses ==
    {Object2("post", Post1, "removed", Str("2")),
     Object2("post", Object3("id", Str("2"), "title", Str("Post 2"), "author", Bob2),
             "removed", Str("1"))}

BothResponses ==
    {Object1("removeUser", Alice1), Object1("removeUser", NoIdUser),
     Object1("removeUser", Str("1"))}

\* the results with data the server returns, by document
Responses ==
    ("createUser" :> {Object1("createUser", Alice1), Object1("createUser", Bob1),
                      Object1("createUser", NoIdUser), Object1("createUser", Zero),
                      Object1("createUser", Str("1")), Object1("createUser", Null)})
 @@ ("updateAge" :> {Object1("updateUser", Age1), Object1("updateUser", Age2),
                     Object1("updateUser", NullAge1)})
 @@ ("createUsers" :> {Object1("createUsers", Arr(<<Alice1, NoIdUser, Bob2>>)),
                       Object1("createUsers", Arr(<<NoIdUser, Bob1, Alice1>>)),
                       Object1("createUsers", Arr(<<Alice1, Null, Bob2>>)),
                       Object1("createUsers", Arr(<<Str("1"), Bob2>>)),
                       Object1("createUsers", Arr(<<>>))})
 @@ ("deleteUser" :> {Object1("deleteUser", Str("1")), Object1("deleteUser", Str("9")),
                      Object1("deleteUser", Num("2")), Object1("deleteUser", Num("0")),
                      Object1("deleteUser", Bool("true")), Object1("deleteUser", Bool("false")),
                      Object1("deleteUser", Str(""))})
 @@ ("deleteUserId" :> {Object1("deleteUser", Object1("id", Str("1"))),
                        Object1("deleteUser", Object1("id", Str("9")))})
 @@ ("deleteUsers" :> {Object1("deleteUsers", Object1("ids", Arr(<<Str("1"), Str("2")>>))),
                       Object1("deleteUsers", Object1("ids", Arr(<<Str("2"), Str("9")>>))),
                       Object1("deleteUsers", Object1("ids", Arr(<<Num("0"), Num("1")>>))),
                       Object1("deleteUsers", Object1("ids", Arr(<<>>)))})
 @@ ("createPostEnum" :> {Object1("createPost",
                                  Object2("id", Str("1"), "title", Str("From Fragment")))})
 @@ ("createPostString" :> {Object1("createPost",
                                    Object2("id", Str("1"), "title", Str("Verbatim")))})
 @@ ("deletePostEnum" :> {Object1("deletePost", Str("1"))})
 @@ ("deletePostString" :> {Object1("deletePost", Str("1"))})
 @@ ("fragmentOnObject" :> {Object1("createUser", Alice1), Object1("createUser", Bob2)})
 @@ ("fragmentOnList" :> {Object1("users", Arr(<<Alice1, Bob2>>)),
                          Object1("users", Arr(<<Bob1>>))})
 @@ ("getPosts" :> {Object1("posts", Arr(<<
                        Object3("id", Str("1"), "title", Str("Post 1"), "author", Alice1),
                        Object3("id", Str("2"), "title", Str("Post 2"), "author", Bob2)>>)),
                    Object1("posts", Arr(<<
                        Object3("id", Str("1"), "title", Str("Edited"), "author", Bob1)>>)),
                    Object1("posts", Arr(<<Tagged3>>))})
 @@ ("everyPosition" :> {Object1("me", Alice1), Object1("user", Bob2)})
 @@ ("mergeNoArguments" :> MalformedResponses)
 @@ ("mergeOtherArgument" :> MalformedResponses)
 @@ ("mergeIntTable" :> MalformedResponses)
 @@ ("deleteNoArguments" :> MalformedResponses)
 @@ ("deleteIntTable" :> MalformedResponses)
 @@ ("bothTables" :> BothResponses)
 @@ ("bothMergeNoArguments" :> BothResponses)
 @@ ("bothMergeIntTable" :> BothResponses)
 @@ ("createTwoUsers" :> {Object2("createUser", Alice1, "createUser2", Bob2)})
 @@ ("nestedArrays" :>
        {Object1("createPost", Object3("id", Str("1"), "title", Str("Post with Array"),
            "comments", Arr(<<Comment("1", Alice1), Comment("2", Bob2), Comment("3", Alice1)>>))),
         Object1("createPost", Object3("id", Str("2"), "title", Str("One Comment"),
            "comments", Arr(<<Comment("1", Bob1)>>)))})
 @@ ("mergeThenDelete" :>
        {Object2("createUser", Alice1,
                 "wrapper", Object1("post", Object2("id", Str("1"), "title", Str("Gone")))),
         Object2("createUser", Bob2,
                 "wrapper", Object1("post", Object2("id", Str("2"), "title", Str("Gone"))))})
 @@ ("gaps" :> {Object1("user", Object3("id", Str("1"), "name", Str("Alice"), "friend", Bob2)),
                Object1("user", Carol3)})
 @@ ("twoOfAKind" :> {Object2("createUser", Carol3, "removed", Str("1"))})
 @@ ("sites" :> {Object1("user", Alice1), Object1("user", Bob2)})
 @@ ("register" :> {Object1("register", Alice1), Object1("register", Bob2),
                    Object1("register", Object2("id", Num("5"), "name", Str("Eve"))),
                    Object1("register", Object2("id", Num("2"), "name", Str("Two"))),
                    Object1("register", Zero)})
 @@ ("unregister" :> {Object1("unregister", Str("1")), Object1("unregister", Str("5")),
                      Object1("unregister", Num("5")), Object1("unregister", Num("2")),
                      Object1("unregister", Num("0"))})
 @@ ("signUp" :> {Object1("signUp", Alice1)})
 @@ ("rename" :> {Object1("rename", Bob1)})
 @@ ("close" :> {Object1("close", Str("1"))})
 @@ UnvalidatedResponses
 @@ ("aliases" :> {Object3("first", Alice1, "second", Bob2,
                           "post", Object2("writer", Carol3, "editor", Bob1)),
                   Object3("first", Bob1, "user", Carol3,
                           "post", Object2("author", Carol3, "editor", Bob2)),
                   Object2("user", Carol3, "post", Object1("author", Alice1))})

\* a result that carries no data: error-only, or data: null
NoData == {Undefined, Null}

\* the applications whose sends and arrivals are written to the log
Observed == {"concurrent"}

\* the applications: their documents and the stores they start from
Apps ==
    ("partial" :> [docs |-> {"createUser", "updateAge"},
                   stores |-> {EmptyStore, SeededUsers}])
 @@ ("array" :> [docs |-> {"createUsers", "updateAge"},
                 stores |-> {EmptyStore, SeededUsers}])
 @@ ("delete" :> [docs |-> {"deleteUser", "deleteUserId", "deleteUsers", "createUser"},
                  stores |-> {SeededUsers}])
 @@ ("enum" :> [docs |-> {"createPostEnum", "createPostString", "deletePostEnum",
                          "deletePostString"},
                stores |-> {EmptyStore}])
 @@ ("fragment" :> [docs |-> {"fragmentOnObject", "fragmentOnList", "getPosts",
                              "everyPosition"},
                    stores |-> {EmptyStore}])
 @@ ("malformed" :> [docs |-> {"mergeNoArguments", "mergeOtherArgument", "mergeIntTable",
                               "deleteNoArguments", "deleteIntTable"},
                     stores |-> {SeededUsers}])
 @@ ("both" :> [docs |-> {"bothTables", "bothMergeNoArguments", "bothMergeIntTable"},
                stores |-> {SeededUsers}])
 @@ ("order" :> [docs |-> {"nestedArrays", "mergeThenDelete"},
                 stores |-> {EmptyStore, SeededUsers}])
 @@ ("gaps" :> [docs |-> {"gaps", "twoOfAKind", "sites"},
                stores |-> {SeededUsers}])
 @@ ("lifecycle" :> [docs |-> {"register", "unregister"},
                     stores |-> {EmptyStore}])
 @@ ("concurrent" :> [docs |-> {"signUp", "rename", "close"},
                      stores |-> {EmptyStore}])
 @@ ("alias" :> [docs |-> {"createTwoUsers", "aliases"},
                 stores |-> {EmptyStore}])

\* applications whose documents spread a fragment inside itself
UnvalidatedApps ==
    ("threads" :> [docs |-> {"deepReplies", "selfSpread", "mutualSpread"},
                   stores |-> {EmptyStore, SeededUsers}])

(***************************************************************************)
(* The exchange as a state machine.                                        *)
(***************************************************************************)
NoResult == [kind |-> "none"]

\* map((operation) => ({...operation, query: cleanedQuery,
\*                      context: {...operation.context, __originalQuery}}))
MapOperation(operation) ==
    [operation EXCEPT !.query = Visit(operation.query),
                      !.context.originalQuery = <<VisitedInput(operation.query)>>]

Init ==
    /\ app \in DOMAIN Apps
    /\ store \in Apps[app].stores
    /\ docs = [d \in Apps[app].docs |-> DocumentNodes[d]]
    /\ inflight = {}
    /\ last = NoResult
    /\ log = <<>>

\* the observer writes event down; it watches the applications of Observed,
\* for MaxLog events
Observe(event) ==
    log' = IF app \in Observed THEN Append(log, event) ELSE log

Watching == app \in Observed => Len(log) < MaxLog

\* the application issues the operation of document d: map, then forward.
\* The key of an operation is the hash of its document.
Send(d) ==
    /\ Cardinality(inflight) < MaxInflight
    /\ \A o \in inflight : o.key # d
    /\ Watching
    /\ Observe([event |-> "sent", key |-> d])
    /\ LET operation == [key |-> d, query |-> docs[d],
                         context |-> [originalQuery |-> <<>>]]
       IN  /\ inflight' = inflight \cup {MapOperation(operation)}
           /\ docs' = [docs EXCEPT ![d] = VisitedInput(operation.query)]
    /\ UNCHANGED <<store, app, last>>

\* faulty variant of Arrive: the reconciliation works on the store as the
\* reconciliation of the result before found it, and writes its outcome back
ArriveOnSnapshot(result) ==
    LET snapshot == IF last.kind = "result" THEN last.before ELSE store
        t == Tap(result, snapshot)
    IN  /\ store' = t.store
        /\ last' = [kind |-> "result", operation |-> result.operation,
                    data |-> result.data, before |-> store, calls |-> t.calls,
                    diags |-> t.diags, thrown |-> t.thrown]
        /\ Observe([event |-> "arrived", key |-> result.operation.key,
                    data |-> result.data,
                    stashed |-> result.operation.context.originalQuery # <<>>])
\* what tap does with a result, recorded with the result
Arrive(result) ==
    LET t == Tap(result, store)
    IN  /\ store' = t.store
        /\ last' = [kind |-> "result", operation |-> result.operation,
                    data |-> result.data, before |-> store, calls |-> t.calls,
                    diags |-> t.diags, thrown |-> t.thrown]
        /\ Observe([event |-> "arrived", key |-> result.operation.key,
                    data |-> result.data,
                    stashed |-> result.operation.context.originalQuery # <<>>])

\* the transport answers a forwarded operation
Deliver(o) ==
    /\ o \in inflight
    /\ Watching
    /\ \E data \in Responses[o.key] \cup NoData :
          Arrive([operation |-> o, data |-> data])
    /\ inflight' = inflight \ {o}
    /\ UNCHANGED <<docs, app>>

\* a result whose operation was rebuilt downstream without the context entry
DeliverWithoutContext(o) ==
    /\ o \in inflight
    /\ Watching
    /\ \E data \in Responses[o.key] :
          Arrive([operation |-> [o EXCEPT !.context.originalQuery = <<>>],
                  data |-> data])
    /\ inflight' = inflight \ {o}
    /\ UNCHANGED <<docs, app>>

Next ==
    \/ \E d \in DOMAIN docs : Send(d)
    \/ \E o \in inflight : Deliver(o)
    \/ \E o \in inflight : DeliverWithoutContext(o)

Spec == Init /\ [][Next]_vars

\* the exchange under an application whose documents have fragment cycles:
\* urql does not validate a document, and neither does the exchange
InitUnvalidated ==
    /\ app \in DOMAIN UnvalidatedApps
    /\ store \in UnvalidatedApps[app].stores
    /\ docs = [d \in UnvalidatedApps[app].docs |-> DocumentNodes[d]]
    /\ inflight = {}
    /\ last = NoResult
    /\ log = <<>>

SpecUnvalidated == InitUnvalidated /\ [][Next]_vars

(***************************************************************************)
(* Properties.                                                             *)
(***************************************************************************)
\* the last result went through tap with its operation's context intact
Reconciled ==
    /\ last.kind = "result"
    /\ last.operation.context.originalQuery # <<>>

\* the last result of document d, reconciled, with data
ReconciledData(d) ==
    /\ Reconciled
    /\ last.operation.key = d
    /\ Truthy(last.data)

UpsertCall(tableName, value) ==
    [op |-> "setPartialRow", table |-> tableName,
     rowId |-> JsString(Get(value, "id")), row |-> value.f]

\* C1: a result that carries no data (error-only or data: null) causes no
\* store call, no diagnostic and no exception, and leaves the store as it
\* was, whatever directives the operation's document holds.
C1_NoDataNoMutation ==
    (last.kind = "result" /\ ~Truthy(last.data)) =>
        /\ store = last.before
        /\ last.calls = <<>>
        /\ last.diags = <<>>
        /\ ~last.thrown

C1_Witness ==
    /\ Reconciled
    /\ last.data = Null
    /\ last.operation.key = "createUser"
    /\ store # EmptyStore

\* the documents whose only directive is @dbMergeRow(table: "users") on the
\* root field, with the response key of that field
SingleMerge == ("createUser" :> "createUser") @@ ("updateAge" :> "updateUser")

\* C2: a merge directive with a string table T over a single object with
\* id X issues exactly one upsert, on row (T, X); afterwards every cell the
\* value names holds the value's content and every cell the row had before
\* that the value does not name is unchanged.
C2_SingleObjectMerge ==
    \A d \in DOMAIN SingleMerge :
        LET value == Get(last.data, SingleMerge[d])
            X == JsString(Get(value, "id"))
        IN  (ReconciledData(d) /\ value.t = "object" /\ Truthy(Get(value, "id"))) =>
                /\ Len(last.calls) = 1
                /\ last.calls[1].op = "setPartialRow"
                /\ last.calls[1].table = TUsers
                /\ last.calls[1].rowId = X
                /\ HasRow(store, TUsers, X)
                /\ \A c \in DOMAIN value.f :
                      IsCell(value.f[c]) =>
                          /\ c \in DOMAIN store[<<TUsers, X>>]
                          /\ store[<<TUsers, X>>][c] = value.f[c]
                /\ \A c \in DOMAIN GetRow(last.before, TUsers, X) \ DOMAIN value.f :
                      /\ c \in DOMAIN store[<<TUsers, X>>]
                      /\ store[<<TUsers, X>>][c] = last.before[<<TUsers, X>>][c]
                /\ \A k \in (DOMAIN store \cup DOMAIN last.before) \ {<<TUsers, X>>} :
                      /\ k \in DOMAIN store
                      /\ k \in DOMAIN last.before
                      /\ store[k] = last.before[k]

C2_Witness ==
    /\ ReconciledData("createUser")
    /\ last.data = Object1("createUser", Alice1)
    /\ last.before = SeededUsers
    /\ store[<<TUsers, "1">>] =
          ("id" :> Str("1")) @@ ("name" :> Str("Alice")) @@ ("extra" :> Str("keep-me"))

\* the calls of the last reconciliation that give cell c of row key a value
Writers(key, c) ==
    {i \in DOMAIN last.calls :
        /\ last.calls[i].op # "delRow"
        /\ <<last.calls[i].table, last.calls[i].rowId>> = key
        /\ c \in DOMAIN last.calls[i].row
        /\ IsCell(last.calls[i].row[c])}

Latest(w) == CHOOSE i \in w : \A j \in w : j <= i

CellsOf(s, key) == IF key \in DOMAIN s THEN DOMAIN s[key] ELSE {}

\* C3: after a result whose reconciliation only merges, every cell of every
\* row holds the value of the latest merge that gave that cell a value, and a
\* cell no merge of this result gave a value is as it was before the result
\* (by induction over the results: last-applied-wins per cell, and the cells
\* set by earlier merges remain).
C3_LastAppliedWinsPerCell ==
    (last.kind = "result" /\ \A i \in DOMAIN last.calls : last.calls[i].op # "delRow") =>
        \A key \in DOMAIN store \cup DOMAIN last.before
                    \cup {<<last.calls[i].table, last.calls[i].rowId>> : i \in DOMAIN last.calls} :
            \A c \in CellsOf(store, key) \cup CellsOf(last.before, key)
                        \cup UNION {DOMAIN last.calls[i].row : i \in DOMAIN last.calls} :
                IF Writers(key, c) # {}
                THEN /\ c \in CellsOf(store, key)
                     /\ store[key][c] = last.calls[Latest(Writers(key, c))].row[c]
                ELSE /\ c \in CellsOf(store, key) <=> c \in CellsOf(last.before, key)
                     /\ c \in CellsOf(store, key) => store[key][c] = last.before[key][c]

\* merging {id: "1", name: "Alice"} and then {id: "1", age: 30} into users
C3_Witness ==
    /\ ReconciledData("updateAge")
    /\ last.data = Object1("updateUser", Age1)
    /\ last.before = SetRow(EmptyStore, TUsers, "1", Alice1.f)
    /\ store = SetRow(EmptyStore, TUsers, "1",
                      ("id" :> Str("1")) @@ ("name" :> Str("Alice")) @@ ("age" :> Num("30")))

\* the table arguments of the documents
TableArgumentValues ==
    {StringValue(TUsers), StringValue(TPosts), StringValue(TPostEnum),
     EnumValue(TPostEnum), EnumValue(TPostLower), EnumValue(TUsers),
     IntValue(<<"1">>)}

\* the table the row of each document of the enum application goes to or from
EnumTable ==
    ("createPostEnum" :> TPostLower) @@ ("createPostString" :> TPostEnum)
 @@ ("deletePostEnum" :> TPostLower) @@ ("deletePostString" :> TPostEnum)

\* C4: a string table argument names the table verbatim and an enum argument
\* names it lowercased, for merge and for delete alike: the row of enum Post
\* is written to and deleted from table "post", never "Post".
C4_TableNameResolution ==
    /\ \A value \in TableArgumentValues : MergeTableName(value) = DeleteTableName(value)
    /\ \A d \in DOMAIN EnumTable :
          ReconciledData(d) =>
              /\ Len(last.calls) = 1
              /\ last.calls[1].table = EnumTable[d]
              /\ last.calls[1].op =
                    (IF d \in {"createPostEnum", "createPostString"}
                     THEN "setPartialRow" ELSE "delRow")
              /\ \A rowId \in {"1"} :
                    HasRow(store, TPostEnum, rowId) # HasRow(last.before, TPostEnum, rowId)
                        => d \in {"createPostString", "deletePostString"}

C4_Witness ==
    /\ ReconciledData("deletePostEnum")
    /\ HasRow(last.before, TPostLower, "1")
    /\ HasRow(last.before, TPostEnum, "1")
    /\ ~HasRow(store, TPostLower, "1")
    /\ HasRow(store, TPostEnum, "1")

HasId(value) == Truthy(Get(value, "id"))

\* C5: a merge directive over an array issues one upsert per element that has
\* an id, in order, keyed by that id, and one warning and no store call per
\* element without an id; no element keeps the others from being upserted.
C5_ArrayMerge ==
    LET value == Get(last.data, "createUsers")
        withId == SelectSeq(value.e, HasId)
        withoutId == SelectSeq(value.e, LAMBDA row : ~HasId(row))
    IN  (ReconciledData("createUsers") /\ IsArray(value)) =>
            /\ last.calls = [i \in DOMAIN withId |-> UpsertCall(TUsers, withId[i])]
            /\ last.diags = [i \in DOMAIN withoutId |->
                                [level |-> "warn", msg |-> "Skipping row without 'id' field",
                                 table |-> TUsers, value |-> withoutId[i]]]
            /\ \A i \in DOMAIN withId : HasRow(store, TUsers, JsString(Get(withId[i], "id")))

\* the documents whose only directive is @dbDeleteRow(table: "users") on a
\* field whose value is the id, at the root or inside the returned object
SingleDelete == {"deleteUser", "deleteUserId"}

DeletedId(d) ==
    IF d = "deleteUser" THEN Get(last.data, "deleteUser")
    ELSE Get(Get(last.data, "deleteUser"), "id")

SameRowsExcept(keys) ==
    /\ DOMAIN store \ keys = DOMAIN last.before \ keys
    /\ \A k \in DOMAIN store \ keys : store[k] = last.before[k]

\* C6: a delete directive with table T over a single id string X leaves row
\* (T, X) absent, on a root field whose value is the id and on an id sub-field
\* of a returned object alike; no other row changes, so deleting a row that
\* does not exist leaves the store as it was.
C6_SingleDelete ==
    \A d \in SingleDelete :
        (ReconciledData(d) /\ DeletedId(d).t = "string" /\ Truthy(DeletedId(d))) =>
            /\ last.calls = <<[op |-> "delRow", table |-> TUsers, rowId |-> DeletedId(d).s]>>
            /\ ~HasRow(store, TUsers, DeletedId(d).s)
            /\ SameRowsExcept({<<TUsers, DeletedId(d).s>>})
            /\ ~HasRow(last.before, TUsers, DeletedId(d).s) => store = last.before

C6_Witness ==
    /\ ReconciledData("deleteUserId")
    /\ last.data = Object1("deleteUser", Object1("id", Str("1")))
    /\ last.before = SeededUsers
    /\ ~HasRow(store, TUsers, "1")
    /\ HasRow(store, TUsers, "2")

\* C7: a delete directive with table T over an array of ids leaves every listed
\* row of T absent and every other row, of T and of every other table, as it
\* was.
C7_ArrayDelete ==
    LET ids == Get(Get(last.data, "deleteUsers"), "ids")
        listed == {<<TUsers, JsString(ids.e[i])>> : i \in DOMAIN ids.e}
    IN  (ReconciledData("deleteUsers") /\ IsArray(ids)) =>
            /\ \A k \in listed : k \notin DOMAIN store
            /\ SameRowsExcept(listed)
            /\ Len(last.calls) = Len(ids.e)

C7_Witness ==
    /\ ReconciledData("deleteUsers")
    /\ last.data = Object1("deleteUsers", Object1("ids", Arr(<<Str("2"), Str("9")>>)))
    /\ last.before = SeededUsers
    /\ DOMAIN store = {<<TUsers, "1">>, <<TPosts, "1">>}

ExchangeDirectiveNames == {"dbMergeRow", "dbDeleteRow"}

NamesOf(directives) == {directives[i].name : i \in DOMAIN directives}

Others(directives) ==
    SelectSeq(directives, LAMBDA node : node.name \notin ExchangeDirectiveNames)

\* the names of the directives of a selection set, at any depth
RECURSIVE DirectiveNamesIn(_)
DirectiveNamesIn(selectionSet) ==
    IF selectionSet = <<>> THEN {}
    ELSE UNION {LET sel == selectionSet[1].selections[i]
                IN  NamesOf(sel.directives)
                       \cup (IF sel.kind = "FragmentSpread" THEN {}
                             ELSE DirectiveNamesIn(sel.selectionSet)) :
                i \in DOMAIN selectionSet[1].selections}

DirectiveNames(query) ==
    UNION {NamesOf(query.definitions[i].directives)
              \cup DirectiveNamesIn(query.definitions[i].selectionSet) :
           i \in DOMAIN query.definitions}

\* selection sets a and b are the same but for the exchange's directives
RECURSIVE SameSelectionSet(_, _)
SameSelection(a, b) ==
    /\ a.kind = b.kind
    /\ Others(a.directives) = Others(b.directives)
    /\ CASE a.kind = "Field" ->
                /\ a.name = b.name
                /\ a.alias = b.alias
                /\ a.arguments = b.arguments
                /\ SameSelectionSet(a.selectionSet, b.selectionSet)
         [] a.kind = "InlineFragment" -> SameSelectionSet(a.selectionSet, b.selectionSet)
         [] a.kind = "FragmentSpread" -> a.name = b.name
SameSelectionSet(a, b) ==
    /\ Len(a) = Len(b)
    /\ \A k \in DOMAIN a :
          /\ Len(a[k].selections) = Len(b[k].selections)
          /\ \A i \in DOMAIN a[k].selections :
                SameSelection(a[k].selections[i], b[k].selections[i])

SameDocument(a, b) ==
    /\ Len(a.definitions) = Len(b.definitions)
    /\ \A i \in DOMAIN a.definitions :
          LET x == a.definitions[i]
              y == b.definitions[i]
          IN  /\ x.kind = y.kind
              /\ Others(x.directives) = Others(y.directives)
              /\ IF x.kind = "FragmentDefinition" THEN x.name = y.name
                 ELSE x.operation = y.operation
              /\ SameSelectionSet(x.selectionSet, y.selectionSet)

\* C8: the document handed to the transport has no dbMergeRow or dbDeleteRow
\* directive at any position and is otherwise the original: the same
\* definitions, fields, aliases, arguments, selections and other directives.
C8_StrippedDocument ==
    \A o \in inflight :
        /\ DirectiveNames(o.query) \cap ExchangeDirectiveNames = {}
        /\ SameDocument(DocumentNodes[o.key], o.query)
        /\ DirectiveNames(o.query) =
              DirectiveNames(DocumentNodes[o.key]) \ ExchangeDirectiveNames

C8_Witness ==
    \E o \in inflight :
        /\ o.key = "everyPosition"
        /\ DirectiveNames(o.query) = {"include"}
        /\ DirectiveNames(DocumentNodes[o.key]) = {"include", "dbMergeRow", "dbDeleteRow"}

\* C9: stripping leaves the application's document as it was: it still holds
\* every directive after the stripped operation was forwarded, it is what the
\* operation carries to the result, and the result is reconciled against it.
C9_OriginalKept ==
    /\ \A d \in DOMAIN docs : docs[d] = DocumentNodes[d]
    /\ \A o \in inflight : o.context.originalQuery = <<DocumentNodes[o.key]>>
    /\ \A d \in DOMAIN docs :
          ReconciledData(d) =>
              /\ last.calls = Reconcile(DocumentNodes[d], last.data, last.before).calls
              /\ store = Reconcile(DocumentNodes[d], last.data, last.before).store

C9_Witness ==
    /\ ReconciledData("createUser")
    /\ DirectiveNames(last.operation.query) = {}
    /\ DirectiveNames(docs["createUser"]) = {"dbMergeRow"}
    /\ Len(last.calls) = 1
    /\ store # last.before

RECURSIVE PostAndAuthorUpserts(_, _)
PostAndAuthorUpserts(e, i) ==
    IF i > Len(e) THEN <<>>
    ELSE <<UpsertCall(TPosts, e[i]), UpsertCall(TUsers, Get(e[i], "author"))>>
            \o PostAndAuthorUpserts(e, i + 1)

\* C10: a merge directive on a fragment definition is applied once per visit
\* of a spread of the fragment, to the value in scope at the spread: one
\* upsert for a field whose value is one object, one per element for a list,
\* and likewise for a fragment spread inside a fragment, one level deeper.
C10_FragmentDefinitionMerge ==
    /\ ReconciledData("fragmentOnObject") =>
          LET value == Get(last.data, "createUser")
          IN  /\ last.calls = <<UpsertCall(TUsers, value)>>
              /\ store[<<TUsers, JsString(Get(value, "id"))>>] = value.f
    /\ ReconciledData("fragmentOnList") =>
          LET value == Get(last.data, "users")
          IN  /\ last.calls = [i \in DOMAIN value.e |-> UpsertCall(TUsers, value.e[i])]
              /\ \A i \in DOMAIN value.e :
                    HasRow(store, TUsers, JsString(Get(value.e[i], "id")))
    /\ ReconciledData("getPosts") =>
          LET value == Get(last.data, "posts")
          IN  /\ last.calls = PostAndAuthorUpserts(value.e, 1)
              /\ \A i \in DOMAIN value.e :
                    /\ HasRow(store, TPosts, JsString(Get(value.e[i], "id")))
                    /\ HasRow(store, TUsers, JsString(Get(Get(value.e[i], "author"), "id")))

C10_Witness ==
    /\ ReconciledData("getPosts")
    /\ Len(Get(last.data, "posts").e) = 2
    /\ Len(last.calls) = 4
    /\ last.before = EmptyStore
    /\ DOMAIN store = {<<TPosts, "1">>, <<TPosts, "2">>, <<TUsers, "1">>, <<TUsers, "2">>}

\* C11: reconciling the same result against the same document a second time
\* leaves the store as the first reconciliation left it: every row the
\* result's directives touch is in the same state after two applications as
\* after one, from whatever store the first one started.
C11_MergeIdempotent ==
    last.kind = "result" =>
        Tap([operation |-> last.operation, data |-> last.data], store).store = store

\* the same result arrived twice in a row and the second changed nothing
C11_Witness ==
    /\ ReconciledData("createUser")
    /\ last.data = Object1("createUser", Alice1)
    /\ Len(last.calls) = 1
    /\ last.before = store
    /\ store = SetPartialRow(SeededUsers, TUsers, "1", Alice1.f)

\* the documents with one malformed directive on the root field post, and the
\* error each logs
MalformedError ==
    ("mergeNoArguments" :>
        [level |-> "error", got |-> "",
         msg |-> "@dbMergeRow directive is missing required 'table' argument"])
 @@ ("mergeOtherArgument" :>
        [level |-> "error", got |-> "",
         msg |-> "@dbMergeRow directive is missing required 'table' argument"])
 @@ ("mergeIntTable" :>
        [level |-> "error", got |-> "IntValue",
         msg |-> "@dbMergeRow 'table' argument must be a string or enum"])
 @@ ("deleteNoArguments" :>
        [level |-> "error", got |-> "",
         msg |-> "@dbDeleteRow directive is missing required 'table' argument"])
 @@ ("deleteIntTable" :>
        [level |-> "error", got |-> "IntValue",
         msg |-> "@dbDeleteRow 'table' argument must be a string or enum"])

RowsOf(s, table) == {k \in DOMAIN s : k[1] = table}

\* C12: a merge or delete directive without a table argument, or with one that
\* is neither a string nor an enum, logs one error and issues no store call;
\* the merge directive on the field nested under that node and the delete
\* directive on its sibling are applied all the same, and nothing is raised.
C12_MalformedDirectiveSkipped ==
    \A d \in DOMAIN MalformedError :
        ReconciledData(d) =>
            /\ last.diags = <<MalformedError[d]>>
            /\ last.calls =
                  <<UpsertCall(TUsers, Get(Get(last.data, "post"), "author")),
                    [op |-> "delRow", table |-> TUsers,
                     rowId |-> JsString(Get(last.data, "removed"))]>>
            /\ ~last.thrown
            /\ RowsOf(store, TPosts) = RowsOf(last.before, TPosts)
            /\ \A k \in RowsOf(store, TPosts) : store[k] = last.before[k]
            /\ DOMAIN store \subseteq RowsOf(store, TPosts) \cup RowsOf(store, TUsers)

C12_Witness ==
    /\ ReconciledData("mergeIntTable")
    /\ last.data = Object2("post", Post1, "removed", Str("2"))
    /\ last.before = SeededUsers
    /\ Len(last.diags) = 1
    /\ store[<<TUsers, "1">>]["name"] = Str("Alice")
    /\ ~HasRow(store, TUsers, "2")
    /\ store[<<TPosts, "1">>] = SeededUsers[<<TPosts, "1">>]

\* C13: reconciliation never raises: for every document and every result,
\* tap returns normally, so that the result goes on downstream.
C13_NeverRaises ==
    last.kind = "result" => ~last.thrown

\* the documents whose root field removeUser carries a merge directive and
\* @dbDeleteRow(table: "users")
BothDirectives == {"bothTables", "bothMergeNoArguments", "bothMergeIntTable"}

\* C14: on a node with both directives the delete directive is applied to the
\* value in scope whatever became of the merge directive: applied, skipped
\* for a missing id, or rejected for its table argument.
C14_DeleteIndependentOfMerge ==
    \A d \in BothDirectives :
        LET value == Get(last.data, "removeUser")
        IN  (ReconciledData(d) /\ Truthy(value)) =>
                /\ last.calls # <<>>
                /\ last.calls[Len(last.calls)] =
                      [op |-> "delRow", table |-> TUsers, rowId |-> JsString(value)]

\* the upsert of the object under key of value, if there is one
UpsertAt(value, key) ==
    IF Get(value, key).t = "object" THEN <<UpsertCall(TUsers, Get(value, key))>> ELSE <<>>

\* C15: a field's value is read under its alias when it has one and under its
\* name otherwise, at the root and below: two aliased occurrences of one field
\* are each merged from their own value, and a value under the unaliased name
\* of an aliased field is never read.
C15_ResponseKey ==
    /\ ReconciledData("createTwoUsers") =>
          last.calls = UpsertAt(last.data, "createUser") \o UpsertAt(last.data, "createUser2")
    /\ ReconciledData("aliases") =>
          /\ last.calls = UpsertAt(last.data, "first") \o UpsertAt(last.data, "second")
                            \o UpsertAt(Get(last.data, "post"), "writer")
                            \o UpsertAt(Get(last.data, "post"), "editor")
          /\ last.diags = <<>>

C15_Witness ==
    /\ ReconciledData("aliases")
    /\ last.data = Object3("first", Bob1, "user", Carol3,
                           "post", Object2("author", Carol3, "editor", Bob2))
    /\ last.before = EmptyStore
    /\ last.calls = <<UpsertCall(TUsers, Bob1), UpsertCall(TUsers, Bob2)>>
    /\ DOMAIN store = {<<TUsers, "1">>, <<TUsers, "2">>}

\* the calls of the last reconciliation after call i that delete row key
DeletedAfter(key, i) ==
    {j \in DOMAIN last.calls :
        /\ j > i
        /\ last.calls[j].op = "delRow"
        /\ <<last.calls[j].table, last.calls[j].rowId>> = key}

\* C16: every cell of every row of the store is a string, a number or a
\* boolean; a field of a merged value that is an object, an array or null
\* does not become a cell of the row, while its scalar fields do.
C16_CellsArePrimitive ==
    /\ \A key \in DOMAIN store : \A c \in DOMAIN store[key] : IsCell(store[key][c])
    /\ last.kind = "result" =>
          \A i \in DOMAIN last.calls :
              last.calls[i].op = "setPartialRow" =>
                  LET key == <<last.calls[i].table, last.calls[i].rowId>>
                      row == last.calls[i].row
                  IN  \A c \in DOMAIN row :
                          IF IsCell(row[c])
                          THEN DeletedAfter(key, i) = {} => c \in CellsOf(store, key)
                          ELSE (Writers(key, c) = {} /\ c \notin CellsOf(last.before, key))
                                  => c \notin CellsOf(store, key)

C16_Witness ==
    /\ ReconciledData("getPosts")
    /\ last.data = Object1("posts", Arr(<<Tagged3>>))
    /\ store[<<TPosts, "3">>] = ("id" :> Str("3")) @@ ("title" :> Str("Post 3"))
    /\ store[<<TUsers, "3">>] = Carol3.f

\* C17: @dbMergeRow(table: "users") over {id: '1', name: 'Alice'} leaves the
\* store that store.setRow('users', '1', {id: '1', name: 'Alice'}) leaves, from
\* any store.
C17_SameAsSetRow ==
    (ReconciledData("createUser") /\ last.data = Object1("createUser", Alice1)) =>
        store = SetRow(last.before, TUsers, "1", Alice1.f)

\* C18: a result whose operation carries no stashed original is reconciled
\* against the operation's own document, the stripped one: no store call, no
\* diagnostic, no exception, and the store is as it was.
C18_FallbackSkipsAll ==
    (last.kind = "result" /\ last.operation.context.originalQuery = <<>>) =>
        /\ QueryOf(last.operation) = last.operation.query
        /\ last.calls = <<>>
        /\ last.diags = <<>>
        /\ ~last.thrown
        /\ store = last.before

C18_Witness ==
    /\ last.kind = "result"
    /\ last.operation.context.originalQuery = <<>>
    /\ last.operation.key = "deleteUsers"
    /\ last.data = Object1("deleteUsers", Object1("ids", Arr(<<Str("1"), Str("2")>>)))
    /\ HasRow(store, TUsers, "1")
    /\ DirectiveNames(DocumentNodes["deleteUsers"]) = {"dbDeleteRow"}

\* C19: a delete directive with table T over a scalar of any type and value
\* deletes row (T, String(v)); over an array it deletes the row of every
\* element, coerced to a string.
C19_DeleteAnyScalar ==
    /\ LET v == Get(last.data, "deleteUser")
       IN  (ReconciledData("deleteUser") /\ IsCell(v)) =>
               /\ last.calls = <<[op |-> "delRow", table |-> TUsers, rowId |-> JsString(v)]>>
               /\ ~HasRow(store, TUsers, JsString(v))
    /\ LET ids == Get(Get(last.data, "deleteUsers"), "ids")
       IN  (ReconciledData("deleteUsers") /\ IsArray(ids)) =>
               last.calls = [i \in DOMAIN ids.e |->
                                [op |-> "delRow", table |-> TUsers,
                                 rowId |-> JsString(ids.e[i])]]

\* C20: a merge directive over a single object writes the row exactly when the
\* object has an id field, whatever the id's value; an object without an id
\* field gets one warning naming the table and no write, and a scalar or null
\* gets neither a write nor a diagnostic.
C20_MergeIffIdField ==
    LET v == Get(last.data, "createUser")
    IN  ReconciledData("createUser") =>
            IF v.t = "object" /\ "id" \in DOMAIN v.f
            THEN /\ last.calls = <<UpsertCall(TUsers, v)>>
                 /\ last.diags = <<>>
                 /\ HasRow(store, TUsers, JsString(v.f["id"]))
            ELSE /\ last.calls = <<>>
                 /\ store = last.before
                 /\ last.diags =
                       (IF v.t = "object"
                        THEN <<[level |-> "warn", table |-> TUsers, value |-> v,
                                msg |-> "Cannot merge data without 'id' field"]>>
                        ELSE <<>>)

DelRowCall(tableName, value) ==
    [op |-> "delRow", table |-> tableName, rowId |-> JsString(value)]

\* C21: a merge directive on a field whose value is an array of n elements
\* with ids issues exactly n upserts for its table, all before the descent
\* into the elements; the descent applies the directives of the nested
\* selections only, once per element.
C21_FieldDirectiveOncePerArray ==
    /\ ReconciledData("nestedArrays") =>
          LET e == Get(Get(last.data, "createPost"), "comments").e
          IN  /\ last.calls =
                    [i \in DOMAIN e |-> UpsertCall(TComments, e[i])]
                       \o [i \in DOMAIN e |-> UpsertCall(TUsers, Get(e[i], "author"))]
              /\ Cardinality({i \in DOMAIN last.calls : last.calls[i].table = TComments})
                    = Len(e)
    /\ LET value == Get(last.data, "createUsers")
       IN  (/\ ReconciledData("createUsers")
            /\ IsArray(value)
            /\ \A i \in DOMAIN value.e : value.e[i].t = "object" /\ HasId(value.e[i])) =>
               last.calls = [i \in DOMAIN value.e |-> UpsertCall(TUsers, value.e[i])]

C21_Witness ==
    /\ ReconciledData("nestedArrays")
    /\ Len(Get(Get(last.data, "createPost"), "comments").e) = 3
    /\ Len(last.calls) = 6
    /\ last.before = EmptyStore
    /\ DOMAIN store = {<<TComments, "1">>, <<TComments, "2">>, <<TComments, "3">>,
                       <<TUsers, "1">>, <<TUsers, "2">>}

\* C22: the calls of a field's own directive come before the calls of the
\* directives in its selection set, and selections are taken in listed order:
\* a field merged into table T whose id sub-field carries a delete directive
\* with table T leaves row (T, id) absent, at the root and below it.
C22_OwnDirectiveBeforeNested ==
    ReconciledData("mergeThenDelete") =>
        LET user == Get(last.data, "createUser")
            post == Get(Get(last.data, "wrapper"), "post")
        IN  /\ last.calls = <<UpsertCall(TUsers, user), DelRowCall(TUsers, Get(user, "id")),
                              UpsertCall(TPosts, post), DelRowCall(TPosts, Get(post, "id"))>>
            /\ ~HasRow(store, TUsers, JsString(Get(user, "id")))
            /\ ~HasRow(store, TPosts, JsString(Get(post, "id")))

C22_Witness ==
    /\ ReconciledData("mergeThenDelete")
    /\ Get(last.data, "createUser") = Alice1
    /\ last.before = SeededUsers
    /\ DOMAIN store = {<<TUsers, "2">>}

\* C23: a spread of a fragment that is not defined and a field whose response
\* key is not in the result object cause no store call and no diagnostic, and
\* the selections after them in the same selection set are applied.
C23_GapsSkipped ==
    ReconciledData("gaps") =>
        LET user == Get(last.data, "user")
        IN  /\ last.calls = <<UpsertCall(TUsers, user)>> \o UpsertAt(user, "friend")
            /\ last.diags = <<>>
            /\ ~last.thrown

C23_Witness ==
    /\ ReconciledData("gaps")
    /\ last.data = Object1("user", Object3("id", Str("1"), "name", Str("Alice"), "friend", Bob2))
    /\ last.before = SeededUsers
    /\ store[<<TUsers, "1">>]["name"] = Str("Alice")
    /\ store[<<TUsers, "2">>]["name"] = Str("Bob")

\* C24: every directive occurrence has its own store call: two merge
\* directives on one field write the row to both tables, two delete
\* directives delete the row from both.
C24_EveryOccurrenceApplied ==
    ReconciledData("twoOfAKind") =>
        LET user == Get(last.data, "createUser")
            removed == Get(last.data, "removed")
        IN  last.calls = <<UpsertCall(TUsers, user), UpsertCall(TPosts, user),
                           DelRowCall(TUsers, removed), DelRowCall(TPosts, removed)>>

\* C29: a merge or delete directive at a fragment-spread site or on an inline
\* fragment is absent from the forwarded document and is never applied: no
\* store call and no diagnostic comes from it; the directives on fields and on
\* fragment definitions of the same document are applied.
C29_SiteDirectivesIgnored ==
    /\ ReconciledData("sites") =>
          /\ last.calls = <<>>
          /\ last.diags = <<>>
          /\ store = last.before
          /\ DirectiveNames(last.operation.query) = {}
    /\ ReconciledData("everyPosition") =>
          LET me == Get(last.data, "me")
          IN  /\ last.calls =
                    (IF me.t = "object"
                     THEN <<UpsertCall(TUsers, me), UpsertCall(TUsers, me),
                            DelRowCall(TPosts, Get(me, "id"))>>
                     ELSE <<>>)
              /\ last.diags = <<>>

C29_Witness ==
    /\ ReconciledData("sites")
    /\ last.data = Object1("user", Alice1)
    /\ DirectiveNames(DocumentNodes["sites"]) = {"dbMergeRow", "dbDeleteRow"}
    /\ DirectiveNames(last.operation.query) = {}
    /\ last.calls = <<>>
    /\ store = SeededUsers

\* the tables the exchange's directives of a directive list resolve to
DirectiveTables(directives) ==
    UNION {LET d == directives[i]
               tableArg == FindByName(d.arguments, "table")
           IN  IF d.name \in ExchangeDirectiveNames /\ tableArg # <<>>
               THEN {MergeTableName(tableArg[1].value)[j] :
                        j \in DOMAIN MergeTableName(tableArg[1].value)}
               ELSE {} :
           i \in DOMAIN directives}

RECURSIVE TablesIn(_)
TablesIn(selectionSet) ==
    IF selectionSet = <<>> THEN {}
    ELSE UNION {LET sel == selectionSet[1].selections[i]
                IN  DirectiveTables(sel.directives)
                       \cup (IF sel.kind = "FragmentSpread" THEN {}
                             ELSE TablesIn(sel.selectionSet)) :
                i \in DOMAIN selectionSet[1].selections}

\* the tables named by the directives of a document
TablesOf(query) ==
    UNION {DirectiveTables(query.definitions[i].directives)
              \cup TablesIn(query.definitions[i].selectionSet) :
           i \in DOMAIN query.definitions}

\* the values of a result: the value itself and the values inside it
RECURSIVE ValuesIn(_)
ValuesIn(v) ==
    {v} \cup (CASE v.t = "object" -> UNION {ValuesIn(v.f[c]) : c \in DOMAIN v.f}
                [] v.t = "array" -> UNION {ValuesIn(v.e[i]) : i \in DOMAIN v.e}
                [] OTHER -> {})

\* C30: every store call of a reconciliation is on a table named by a merge
\* or delete directive of the operation's original document, with a row id
\* that is the text of a value of the result; every row that no call names,
\* in those tables and in all others, is as it was before the result.
C30_OnlyDirectedRows ==
    last.kind = "result" =>
        /\ \A i \in DOMAIN last.calls :
              /\ last.calls[i].table \in TablesOf(DocumentNodes[last.operation.key])
              /\ last.calls[i].rowId \in {JsString(v) : v \in ValuesIn(last.data)}
        /\ SameRowsExcept({<<last.calls[i].table, last.calls[i].rowId>> :
                              i \in DOMAIN last.calls})

C30_Witness ==
    /\ ReconciledData("mergeThenDelete")
    /\ Get(last.data, "createUser") = Bob2
    /\ last.before = SeededUsers
    /\ Len(last.calls) = 4
    /\ DOMAIN store = {<<TUsers, "1">>, <<TPosts, "1">>}
    /\ store[<<TUsers, "1">>] = SeededUsers[<<TUsers, "1">>]

\* C28: merge and delete name the same row for the same id, a string or a
\* number: after a delete directive with table T over the value X, no row of T
\* that a merge directive over an object with id X made is left: neither one
\* that was in the store, nor the one such a merge makes in an empty store.
C28_SameRowForSameId ==
    LET X == Get(last.data, "unregister")
    IN  (ReconciledData("unregister") /\ IsCell(X)) =>
            /\ \A k \in RowsOf(last.before, TUsers) :
                  last.before[k]["id"] = X => k \notin DOMAIN store
            /\ \A k \in DOMAIN Reconcile(DocumentNodes["register"],
                                         Object1("register",
                                                 Object2("id", X, "name", Str("Eve"))),
                                         EmptyStore).store :
                  k \notin DOMAIN store

C28_Witness ==
    /\ ReconciledData("unregister")
    /\ last.data = Object1("unregister", Num("5"))
    /\ HasRow(last.before, TUsers, "5")
    /\ last.before[<<TUsers, "5">>]["id"] = Num("5")
    /\ HasRow(last.before, TUsers, "1")
    /\ DOMAIN store = {<<TUsers, "1">>}

\* C25: with several operations in flight, each carries its own original
\* document, and whichever result arrives is reconciled against the original
\* of its own operation, whatever the operations still in flight are.
C25_OwnOriginalPerOperation ==
    /\ \A o \in inflight :
          /\ o.context.originalQuery = <<DocumentNodes[o.key]>>
          /\ QueryOf(o) = DocumentNodes[o.key]
    /\ Reconciled =>
          LET own == Tap([operation |->
                             [key |-> last.operation.key,
                              query |-> Visit(DocumentNodes[last.operation.key]),
                              context |-> [originalQuery |->
                                              <<DocumentNodes[last.operation.key]>>]],
                          data |-> last.data], last.before)
          IN  /\ last.operation.context.originalQuery = <<DocumentNodes[last.operation.key]>>
              /\ last.calls = own.calls
              /\ last.diags = own.diags
              /\ store = own.store

\* rename was sent after signUp and its result arrived first, while signUp was
\* still in flight
C25_Witness ==
    /\ app = "concurrent"
    /\ log = <<[event |-> "sent", key |-> "signUp"], [event |-> "sent", key |-> "rename"],
               [event |-> "arrived", key |-> "rename", data |-> Object1("rename", Bob1),
                stashed |-> TRUE]>>
    /\ \E o \in inflight : o.key = "signUp"
    /\ last.calls = <<UpsertCall(TUsers, Bob1)>>
    /\ store[<<TUsers, "1">>]["name"] = Str("Bob")

\* the store after the reconciliations of the results of events from i on,
\* one after the other, each against the document of its operation
RECURSIVE Replay(_, _, _)
Replay(events, i, s) ==
    IF i > Len(events) THEN s
    ELSE IF events[i].event = "arrived" /\ events[i].stashed /\ Truthy(events[i].data)
    THEN Replay(events, i + 1,
                Reconcile(DocumentNodes[events[i].key], events[i].data, s).store)
    ELSE Replay(events, i + 1, s)

Sent(events) == SelectSeq(events, LAMBDA x : x.event = "sent")
Arrived(events) == SelectSeq(events, LAMBDA x : x.event = "arrived")

\* C26: the store is the one got by reconciling the results that arrived one
\* after the other, each as a whole, in the order of arrival; the order in
\* which the operations were sent has no part in it.
C26_ArrivalOrderOnly ==
    app \in Observed =>
        /\ store = Replay(log, 1, EmptyStore)
        /\ store = Replay(Arrived(log), 1, EmptyStore)

\* signUp sent before rename, rename's result before signUp's: Alice stays
C26_Witness ==
    /\ app = "concurrent"
    /\ [i \in DOMAIN Sent(log) |-> Sent(log)[i].key] = <<"signUp", "rename">>
    /\ [i \in DOMAIN Arrived(log) |-> Arrived(log)[i].key] = <<"rename", "signUp">>
    /\ \A i \in DOMAIN Arrived(log) : Arrived(log)[i].stashed /\ Truthy(Arrived(log)[i].data)
    /\ store = SetRow(EmptyStore, TUsers, "1", Alice1.f)

\* C27: reconciliation terminates for every document and every finite result,
\* documents in which a fragment spreads itself included: the walk of a result
\* with data comes to its end, nowhere short of room on the call stack.
C27_ReconcileTerminates ==
    (last.kind = "result" /\ Truthy(last.data)
        /\ last.operation.key \in UnvalidatedApps[app].docs) => ~last.thrown

====
